---- MODULE Spec2Model ----
(***************************************************************************)
(* Serial frame reassembly and delivery pipeline of the Raspberry Pi       *)
(* sender (src/raspi/raspi.py): the reader thread admits decoded packets   *)
(* to the multi-packet buffer (process_packet / merge_packets), the        *)
(* janitor thread sweeps stale sessions (cleanup_stale_buffers), and       *)
(* complete records are handed to the bounded dispatch queue (queue_put).  *)
(* The variants of the sender are modelled where they differ: the block    *)
(* protocol reader of src/raspi/raspi-v1.py and the queueing producers and *)
(* post_payload of src/raspi/tesGPS.py.                                    *)
(***************************************************************************)
EXTENDS Integers, Sequences, FiniteSets, TLC

VARIABLES
    PACKET_BUFFER,  \* dict buffer_key -> [packets, timestamp, total]
    BUFFER_LOCK,    \* holder of BUFFER_LOCK: "free", "reader" or "janitor"
    DATA_QUEUE,     \* Queue(maxsize = queue_maxsize), oldest record first
    now,            \* the wall clock read by time.time()
    rd,             \* reader thread: position and locals of worker_serial_reader
    jn,             \* janitor thread: position and locals of worker_buffer_cleanup
    calls,          \* history: per key, the process_packet calls of its latest session
    sid,            \* history: per key, the identity of its latest session
    removals,       \* history: the session removals decided so far
    ncalls,         \* history: number of lines handed to the reader so far
    late,           \* history: the clock has moved on while a sweep was due
    rx,             \* the serial line: the bytes the receiver sends, and how many were read
    buf,            \* worker_serial_reader's accumulation buffer (str)
    lines,          \* history: the lines split off buf so far
    STOP,           \* the shutdown signal (threading.Event)
    SER_HANDLE,     \* the serial handle: "none" (None), "open" or "closed"
    SER_LOCK,       \* holder of SER_LOCK: "free" or the thread inside "with SER_LOCK"
    link,           \* the receiver is plugged in
    rc,             \* reader thread: its position around the serial connection
    sn,             \* delivery worker: position and locals of worker_http_sender
    wr,             \* the periodic serial writers: position of each
    mn,             \* main thread: position in main()
    CFG,            \* the configuration read from the environment (CFG = Config())
    px              \* the workers that POST on their own: position and locals of each

\* the frame scanner's part of the state
scanner == <<rx, buf, lines>>

\* the part of the state around delivery, the serial writers and shutdown
delivery == <<STOP, SER_HANDLE, SER_LOCK, link, rc, sn, wr, mn>>

vars == <<PACKET_BUFFER, BUFFER_LOCK, DATA_QUEUE, now, rd, jn,
          calls, sid, removals, ncalls, late, scanner, delivery, CFG, px>>

-----------------------------------------------------------------------------
(* Bounds of the model *)

MaxCalls == 3       \* lines handed to the reader in one behaviour
MaxTime  == 3       \* last clock value
MaxJobs  == 2       \* lines handed to the reader while the delivery side runs
MaxRetry == 6       \* largest HTTP_MAX_RETRY the retry loop is run with
MaxQueue == 2       \* largest QUEUE_MAXSIZE the dispatch queue is created with

(* Configuration (class Config), as set through the environment *)

packet_buffer_timeout == 2      \* PACKET_BUFFER_TIMEOUT_S=2
QUEUE_MAXSIZE == 1              \* QUEUE_MAXSIZE=1
HTTP_MAX_RETRY == 2             \* HTTP_MAX_RETRY=2

\* CFG = Config(): the options that are read as integers
Config == [queue_maxsize |-> QUEUE_MAXSIZE, http_max_retry |-> HTTP_MAX_RETRY]

queue_maxsize == CFG.queue_maxsize
http_max_retry == CFG.http_max_retry

(* JSON null / Python None, encoded as an integer no modelled field holds *)
None == -1

-----------------------------------------------------------------------------
(* Python dict helpers: a dict is a function from its keys to its values *)

EmptyDict == [k \in {} |-> None]

\* dict.get(key, default)
Get(d, k, default) == IF k \in DOMAIN d THEN d[k] ELSE default

\* dict.pop(key, None), as the dict that is left
Pop(d, k) == [f \in (DOMAIN d) \ {k} |-> d[f]]

\* d[key] = value
Put(d, k, v) == [f \in (DOMAIN d) \cup {k} |-> IF f = k THEN v ELSE d[f]]

\* str(int) for the non-negative integers of the model
RECURSIVE IntToStr(_)
IntToStr(n) ==
    LET digit == <<"0", "1", "2", "3", "4", "5", "6", "7", "8", "9">>
    IN  IF n < 10 THEN digit[n + 1]
        ELSE IntToStr(n \div 10) \o digit[(n % 10) + 1]

StartsWithPort_Contains(key) ==
    \E i \in 1..Len(key) : i + 4 <= Len(key) /\ SubSeq(key, i, i + 4) = "port-"

\* key.startswith("port-")
StartsWithPort(key) == Len(key) >= 5 /\ SubSeq(key, 1, 5) = "port-"

-----------------------------------------------------------------------------
(* entry["packets"]: a dict keyed by seq.  A Python dict keeps its keys in  *)
(* insertion order, so it is a sequence of items [seq, packet] with         *)
(* distinct seq, in the order the keys were first inserted.                 *)

Seqs(items) == {items[i].seq : i \in 1..Len(items)}

\* buffer_entry["packets"][seq] = packet
StorePart(items, seq, packet) ==
    IF seq \in Seqs(items)
    THEN [i \in 1..Len(items) |->
            IF items[i].seq = seq THEN [seq |-> seq, packet |-> packet]
            ELSE items[i]]
    ELSE Append(items, [seq |-> seq, packet |-> packet])

RECURSIVE InsertBySeq_Descending(_, _)
InsertBySeq_Descending(item, sorted) ==
    IF sorted = <<>> THEN <<item>>
    ELSE IF item.seq > Head(sorted).seq THEN <<item>> \o sorted
    ELSE <<Head(sorted)>> \o InsertBySeq_Descending(item, Tail(sorted))

\* one step of the stable insertion that sorted(..., key=lambda x: x[0]) amounts to
RECURSIVE InsertBySeq(_, _)
InsertBySeq(item, sorted) ==
    IF sorted = <<>> THEN <<item>>
    ELSE IF item.seq < Head(sorted).seq THEN <<item>> \o sorted
    ELSE <<Head(sorted)>> \o InsertBySeq(item, Tail(sorted))

RECURSIVE SortFrom(_, _)
SortFrom(items, sorted) ==
    IF items = <<>> THEN sorted
    ELSE SortFrom(Tail(items), InsertBySeq(Head(items), sorted))

SortedBySeq_Unsorted(items) == items

\* sorted(packets.items(), key=lambda x: x[0])
SortedBySeq(items) == SortFrom(items, <<>>)

\* for key, value in packet.items(): if key.startswith("port-"): merged[key] = value
MergePorts(merged, packet) ==
    LET ports == {k \in DOMAIN packet : StartsWithPort(k)}
    IN  [k \in (DOMAIN merged) \cup ports |->
            IF k \in ports THEN packet[k] ELSE merged[k]]

\* for seq, packet in sorted_packets[1:]: ...
RECURSIVE MergeRest(_, _)
MergeRest(merged, rest) ==
    IF rest = <<>> THEN merged
    ELSE MergeRest(MergePorts(merged, Head(rest).packet), Tail(rest))

merge_packets(packets) ==
    IF packets = <<>> THEN EmptyDict
    ELSE LET sorted_packets == SortedBySeq(packets)
             base == Pop(Pop(sorted_packets[1].packet, "seq"), "tot")
         IN  MergeRest(base, Tail(sorted_packets))

get_buffer_key(packet) ==
    Get(packet, "sensor_controller_id", "unknown") \o "_"
        \o IntToStr(Get(packet, "ts", 0))

IsPassThrough_Inverted(packet) ==
    ~(Get(packet, "seq", None) = None \/ Get(packet, "tot", None) = None)

\* if seq is None or tot is None: return packet
IsPassThrough(packet) ==
    Get(packet, "seq", None) = None \/ Get(packet, "tot", None) = None

IsComplete_OneShort(received_count, tot) == received_count >= tot - 1

\* if received_count == tot
IsComplete(received_count, tot) == received_count = tot

IsStale_Inverted(age) == age < packet_buffer_timeout

IsStale_AtTimeout(age) == age >= packet_buffer_timeout

\* if age > CFG.packet_buffer_timeout
IsStale(age) == age > packet_buffer_timeout

\* STOP.wait(CFG.packet_buffer_timeout / 2)
SweepPeriod == packet_buffer_timeout \div 2

queue_put_DropOldest(queue, data) ==
    IF queue_maxsize <= 0 \/ Len(queue) < queue_maxsize
    THEN Append(queue, data)
    ELSE Append(Tail(queue), data)

\* DATA_QUEUE.put(data, timeout=1) with nobody taking from the queue; Full is
\* caught and the payload dropped.  Queue(maxsize <= 0) is unbounded.
queue_put(queue, data) ==
    IF queue_maxsize <= 0 \/ Len(queue) < queue_maxsize
    THEN Append(queue, data)
    ELSE queue

\* datetime.utcnow().isoformat() + "Z": the stamp is an opaque string
UtcNowIso == "utcnow"

\* the normalisation of a parsed [FOR_PI] object in worker_serial_reader
Normalize(parsed, clock) ==
    LET id == Get(parsed, "id", "")
        type == Get(parsed, "type", "")
        withId ==
            IF "sensor_controller_id" \in DOMAIN parsed THEN parsed
            ELSE Put(parsed, "sensor_controller_id",
                     IF id # "" THEN id ELSE IF type # "" THEN type ELSE "UNKNOWN")
    IN  IF "ts_iso" \in DOMAIN withId THEN withId
        ELSE Put(withId, "ts_iso", clock)

-----------------------------------------------------------------------------
(* The parsed [FOR_PI] objects the reader is fed *)

\* fields other than the controller id and the sequence metadata, by part index
Body(seq) ==
    IF seq = 0 THEN [k \in {"port-1", "temp"} |-> IF k = "temp" THEN 1 ELSE 10]
    ELSE IF seq = 1
    THEN [k \in {"port-1", "port-2", "temp", "hum"} |->
            IF k = "port-1" THEN 20 ELSE IF k = "port-2" THEN 5
            ELSE IF k = "temp" THEN 2 ELSE 7]
    ELSE [k \in {"port-2", "report-1"} |-> IF k = "port-2" THEN 6 ELSE 9]

Part(cid, seq, tot, body) ==
    Put(Put(Put(body, "sensor_controller_id", cid), "seq", seq), "tot", tot)

Plain == Put(Body(0), "sensor_controller_id", "A")

\* well-formed traffic: the parts of a two-part and of a three-part batch of
\* controller A, a part of controller B, and a packet that is not multi-part
\* (and has no sensor_controller_id)
CoreLines ==
    {Part("A", seq, 2, Body(seq)) : seq \in 0..1}
        \cup {Part("A", seq, 3, Body(seq)) : seq \in 0..2}
        \cup {Put(Part("B", 0, 2, Body(0)), "ts", 7), Put(Body(0), "id", "B")}

\* further traffic: an index outside 0..tot-1, a one-part batch, a part sent again
\* with other content, the second part of B, and packets with half of the
\* sequence metadata
OddLines ==
    { Part("A", 2, 2, Body(2)),
      Part("A", 0, 1, Body(0)),
      Part("A", 0, 2, Body(1)),
      Put(Part("B", 1, 2, Body(1)), "ts", 7),
      Plain,
      Put(Plain, "seq", 0),                         \* seq without tot
      Put(Put(Plain, "seq", 1), "tot", None) }      \* "tot": null

AllLines == CoreLines \cup OddLines

-----------------------------------------------------------------------------
(* Optional[Dict]: the value process_packet returns *)

Nothing == [isNone |-> TRUE, val |-> EmptyDict]
Some(d) == [isNone |-> FALSE, val |-> d]

NoEntry == [packets |-> <<>>, timestamp |-> 0, total |-> 0]

\* the reader between two lines
ReaderIdle ==
    [pc |-> "idle", packet |-> EmptyDict, buffer_key |-> "", buffer_entry |-> NoEntry,
     ret |-> Nothing, session |-> 0, dup |-> FALSE, age |-> 0]

\* a history counter per session
Count(f, id) == IF id \in DOMAIN f THEN f[id] ELSE 0
Bump(f, ids) == [id \in (DOMAIN f) \cup ids |-> Count(f, id) + IF id \in ids THEN 1 ELSE 0]

LockFree_Ignored == TRUE

\* with BUFFER_LOCK: the lock can be taken
LockFree == BUFFER_LOCK = "free"

-----------------------------------------------------------------------------
(* The frame scanner of worker_serial_reader: bytes, str, lines, JSON texts *)

\* the character at position i of a str, "" outside it
Char(s, i) == IF i \in 1..Len(s) THEN SubSeq(s, i, i) ELSE ""

\* the two bytes of the UTF-8 encoding of U+00E9; every other byte of the model
\* is an ASCII byte, written as its character
LeadByte == "\\xc3"
ContByte == "\\xa9"

\* "".join(parts), and the concatenation of a sequence of byte sequences
RECURSIVE Join(_)
Join(parts) ==
    IF parts = <<>> THEN ""
    ELSE IF Len(parts) = 1 THEN parts[1]
    ELSE Join(SubSeq(parts, 1, Len(parts) \div 2))
            \o Join(SubSeq(parts, (Len(parts) \div 2) + 1, Len(parts)))

RECURSIVE Flatten(_)
Flatten(parts) ==
    IF parts = <<>> THEN <<>>
    ELSE IF Len(parts) = 1 THEN parts[1]
    ELSE Flatten(SubSeq(parts, 1, Len(parts) \div 2))
            \o Flatten(SubSeq(parts, (Len(parts) \div 2) + 1, Len(parts)))

\* str.encode("utf-8")
encode_utf8(text) ==
    Flatten([i \in 1..Len(text) |->
                IF Char(text, i) = "é" THEN <<LeadByte, ContByte>>
                ELSE <<Char(text, i)>>])

\* what the byte at position i of a chunk contributes to
\* bytes.decode(errors="ignore"): a lead byte followed by its continuation byte
\* gives the character, a byte that does not belong to a complete UTF-8
\* sequence of the chunk is left out
DecodedAt(bytes, i) ==
    IF bytes[i] = LeadByte
    THEN IF i < Len(bytes) /\ bytes[i + 1] = ContByte THEN "é" ELSE ""
    ELSE IF bytes[i] = ContByte THEN ""
    ELSE bytes[i]

\* bytes.decode(errors="ignore")
decode_ignore(bytes) == Join([i \in 1..Len(bytes) |-> DecodedAt(bytes, i)])

\* "\n" in buf
HasNewline(s) == \E i \in 1..Len(s) : Char(s, i) = "\n"

FirstNewline(s) ==
    CHOOSE i \in 1..Len(s) :
        Char(s, i) = "\n" /\ \A j \in 1..(i - 1) : Char(s, j) # "\n"

\* line, buf = buf.split("\n", 1)
BeforeNewline(s) == SubSeq(s, 1, FirstNewline(s) - 1)
AfterNewline(s) == SubSeq(s, FirstNewline(s) + 1, Len(s))

Whitespace == {" ", "\t", "\r", "\n"}

\* line.strip("\r").strip()
RECURSIVE Strip(_)
Strip(s) ==
    IF s = "" THEN ""
    ELSE IF Char(s, 1) \in Whitespace THEN Strip(SubSeq(s, 2, Len(s)))
    ELSE IF Char(s, Len(s)) \in Whitespace THEN Strip(SubSeq(s, 1, Len(s) - 1))
    ELSE s

StartsWith(s, prefix) == Len(s) >= Len(prefix) /\ SubSeq(s, 1, Len(prefix)) = prefix
EndsWith(s, suffix) ==
    Len(s) >= Len(suffix) /\ SubSeq(s, Len(s) - Len(suffix) + 1, Len(s)) = suffix

ForPi == "[FOR_PI]"

\* json_part = line[len("[FOR_PI]"):].strip()
JsonPart(line) == Strip(SubSeq(line, Len(ForPi) + 1, Len(line)))

\* json_part.startswith("{") and json_part.endswith("}")
LooksLikeObject(json_part) == StartsWith(json_part, "{") /\ EndsWith(json_part, "}")

(* json.loads on the texts of the model: objects written without white space    *)
(* whose members are strings without escapes or non-negative integers.  A scan  *)
(* result is [ok, val, next]: next is the position after what was scanned.      *)

Digits == {"0", "1", "2", "3", "4", "5", "6", "7", "8", "9"}
ScanFail == [ok |-> FALSE, val |-> "", next |-> 0]

\* the position of the quote that closes a string whose content starts at i, or 0
RECURSIVE StringEnd(_, _)
StringEnd(s, i) ==
    IF i > Len(s) THEN 0
    ELSE IF Char(s, i) = "\"" THEN i
    ELSE IF Char(s, i) \in {"\\", "\n", "\r", "\t"} THEN 0
    ELSE StringEnd(s, i + 1)

ScanString(s, i) ==
    IF Char(s, i) = "\"" /\ StringEnd(s, i + 1) # 0
    THEN [ok |-> TRUE, val |-> SubSeq(s, i + 1, StringEnd(s, i + 1) - 1),
          next |-> StringEnd(s, i + 1) + 1]
    ELSE ScanFail

\* the position after the run of digits that starts at i
RECURSIVE DigitsEnd(_, _)
DigitsEnd(s, i) == IF Char(s, i) \in Digits THEN DigitsEnd(s, i + 1) ELSE i

\* int(text) for a run of digits
RECURSIVE StrToInt(_)
StrToInt(text) ==
    LET last == CHOOSE d \in 0..9 : IntToStr(d) = Char(text, Len(text))
    IN  IF Len(text) = 1 THEN last
        ELSE 10 * StrToInt(SubSeq(text, 1, Len(text) - 1)) + last

ScanNumber(s, i) ==
    LET e == DigitsEnd(s, i)
    IN  IF e = i \/ (e > i + 1 /\ Char(s, i) = "0") THEN ScanFail
        ELSE [ok |-> TRUE, val |-> StrToInt(SubSeq(s, i, e - 1)), next |-> e]

ScanValue(s, i) == IF Char(s, i) = "\"" THEN ScanString(s, i) ELSE ScanNumber(s, i)

\* the members of an object from position i on, up to the closing brace that must
\* end the text; a repeated name keeps its last value
RECURSIVE ScanMembers(_, _, _)
ScanMembers(s, i, obj) ==
    LET k == ScanString(s, i)
        v == ScanValue(s, k.next + 1)
        obj2 == Put(obj, k.val, v.val)
    IN  IF ~k.ok \/ Char(s, k.next) # ":" THEN Nothing
        ELSE IF ~v.ok THEN Nothing
        ELSE IF Char(s, v.next) = "," THEN ScanMembers(s, v.next + 1, obj2)
        ELSE IF Char(s, v.next) = "}" /\ v.next = Len(s) THEN Some(obj2)
        ELSE Nothing

\* json.loads(json_part): the object, or Nothing for json.JSONDecodeError
json_loads(text) ==
    IF text = "{}" THEN Some(EmptyDict)
    ELSE IF Char(text, 1) = "{" THEN ScanMembers(text, 2, EmptyDict)
    ELSE Nothing

ParseLine_EmptyOnError(line) ==
    IF StartsWith(line, ForPi)
    THEN Some(IF json_loads(JsonPart(line)).isNone THEN EmptyDict
              ELSE json_loads(JsonPart(line)).val)
    ELSE Nothing

\* what a stripped line yields: the parsed object of a [FOR_PI] envelope, or
\* Nothing for any other line, a payload that is not braced, or a JSON error
ParseLine(line) ==
    IF StartsWith(line, ForPi) /\ LooksLikeObject(JsonPart(line))
    THEN json_loads(JsonPart(line))
    ELSE Nothing

\* the lines that the text holds complete, stripped, and what follows the last
RECURSIVE LinesOf(_)
LinesOf(text) ==
    IF HasNewline(text)
    THEN <<Strip(BeforeNewline(text))>> \o LinesOf(AfterNewline(text))
    ELSE <<>>

RECURSIVE RestOf(_)
RestOf(text) == IF HasNewline(text) THEN RestOf(AfterNewline(text)) ELSE text

(* The byte streams the receiver sends *)

Envelope(payload) == ForPi \o payload \o "\n"

\* two plain packets, the first sent with CR LF, a quoted text instead of an
\* object, an empty line, and the beginning of a further line
StreamPlain ==
    "[FOR_PI]{\"id\":\"B\"}\r\n" \o Envelope("\"not json\"") \o "\n"
        \o Envelope("{\"id\":\"C\"}") \o "[FOR"

\* a braced payload that is not JSON, a line of the receiver's log, a one-part
\* batch, and an object cut short
StreamBatch ==
    Envelope("{bad}") \o "boot ok\n"
        \o Envelope("{\"sensor_controller_id\":\"A\",\"seq\":0,\"tot\":1}")
        \o Envelope("{\"id\":\"B\"")

\* a packet with a character outside ASCII
StreamAccent == Envelope("{\"id\":\"é\"}")

Streams == {encode_utf8(text) : text \in {StreamPlain, StreamBatch, StreamAccent}}

-----------------------------------------------------------------------------
(* Delivery: _http_post, worker_http_sender and the serial writers *)

\* what one HTTP_SESSION.post can come back with: a response with a status code,
\* or a requests.exceptions.RequestException
Response(status) == [error |-> FALSE, status |-> status]
TransportError == [error |-> TRUE, status |-> 0]
Responses == {Response(status) : status \in {199, 200, 299, 300}} \cup {TransportError}

IsSuccess_Below300(status) == status < 300

\* if 200 <= resp.status_code < 300
IsSuccess(status) == 200 <= status /\ status < 300

LastAttempt_OneMore(attempt) == attempt > http_max_retry

\* for attempt in range(1, CFG.http_max_retry + 1): this attempt is the last one
LastAttempt(attempt) == attempt >= http_max_retry

Backoff_Uncapped(attempt) == 1 * attempt

\* min(1 * attempt, 5): the timeout of the wait after a failed attempt
Backoff(attempt) == IF 1 * attempt < 5 THEN 1 * attempt ELSE 5

\* range(1, CFG.http_max_retry + 1) is empty
NoAttempts == http_max_retry < 1

Tag_AlwaysOk(ok) == "[SVROK]\n"

\* tag = b"[SVROK]\n" if ok else b"[SVRERR]\n"
Tag(ok) == IF ok THEN "[SVROK]\n" ELSE "[SVRERR]\n"

\* the periodic writers: worker_heartbeat_to_receiver, worker_send_pi_serial
Writers == {"hb", "pi"}

\* the delivery worker at DATA_QUEUE.get, with nothing in hand; log, waits and
\* tags are history: the responses to the POSTs made for the record in hand, the
\* timeouts of the backoff waits taken for it, and the tags written to the link
\* for it
SenderIdle ==
    [pc |-> "get", data |-> Nothing, attempt |-> 0, ok |-> FALSE,
     log |-> <<>>, waits |-> <<>>, tags |-> <<>>]

StopIsSet_Always == TRUE

StopIsSet_Never == FALSE

\* STOP.is_set(), and what a timed STOP.wait returns
StopIsSet == STOP

SerLockFree_Ignored == TRUE

SerLockFree_Never == FALSE

\* with SER_LOCK: the lock can be taken
SerLockFree == SER_LOCK = "free"

WriteGoesOut_Always == TRUE

\* if SER_HANDLE and SER_HANDLE.writable(), and the write not raising: a closed
\* handle still answers writable() with True, and its write raises, as does a
\* write to an unplugged receiver
WriteGoesOut == SER_HANDLE = "open" /\ link

\* the reader has not opened the serial line yet: nothing to read, buf = ""
ScannerIdle ==
    /\ rx = [stream |-> <<>>, pos |-> 0]
    /\ buf = ""
    /\ lines = <<>>

InitBuffers ==
    /\ PACKET_BUFFER = EmptyDict
    /\ BUFFER_LOCK = "free"
    /\ DATA_QUEUE = <<>>
    /\ now = 0
    /\ rd = ReaderIdle
    /\ jn = [pc |-> "wait", now |-> 0, stale_keys |-> {}, stale_sessions |-> {}, wake |-> 0]
    /\ calls = EmptyDict
    /\ sid = EmptyDict
    /\ removals = [completed |-> EmptyDict, evicted |-> EmptyDict]
    /\ ncalls = 0
    /\ late = FALSE

\* the threads around delivery before main() starts them, nothing connected
DeliveryIdle ==
    /\ STOP = FALSE
    /\ SER_HANDLE = "none"
    /\ SER_LOCK = "free"
    /\ link = TRUE
    /\ rc = "detect"
    /\ sn = SenderIdle
    /\ wr = [w \in Writers |-> "wait"]
    /\ mn = "run"

\* the workers that send their own records: worker_push_sys_metrics and
\* worker_gps_reader
Pushers == {"sys", "gps"}

\* such a worker in its timed STOP.wait; log is history: the responses to the
\* POSTs made for the record of this round, rounds the records built so far
PusherIdle ==
    [pc |-> "wait", attempt |-> 0, ok |-> FALSE, log |-> <<>>, rounds |-> 0]

PushersIdle == px = [w \in Pushers |-> PusherIdle]

\* the options as the environment sets them
Configured == CFG = Config

Init == InitBuffers /\ ScannerIdle /\ DeliveryIdle /\ PushersIdle /\ Configured

-----------------------------------------------------------------------------
(* Reader thread: worker_serial_reader, one line of the buffer per round *)

\* the reader after the normalisation of a parsed object and the first lines of
\* process_packet: on its way to queue_put, or about to take BUFFER_LOCK
Decoded(parsed) ==
    LET packet == Normalize(parsed, UtcNowIso)
    IN  IF IsPassThrough(packet)
        THEN [ReaderIdle EXCEPT !.pc = "put", !.packet = packet,
                                !.ret = Some(packet)]
        ELSE [ReaderIdle EXCEPT !.pc = "lock", !.packet = packet,
                                !.buffer_key = get_buffer_key(packet)]

\* json.loads, normalisation, and process_packet up to "with BUFFER_LOCK"
ReaderLine(parsed) ==
    /\ rd.pc = "idle"
    /\ ncalls < MaxCalls
    /\ rd' = Decoded(parsed)
    /\ ncalls' = ncalls + 1
    /\ UNCHANGED <<PACKET_BUFFER, BUFFER_LOCK, DATA_QUEUE, now, jn, calls, sid,
                   removals, late>>
    /\ UNCHANGED <<scanner, delivery>>
    /\ UNCHANGED <<CFG, px>>

ReaderStore_Refreshes ==
    /\ rd.pc = "lock"
    /\ LockFree
    /\ BUFFER_LOCK' = "reader"
    /\ LET key == rd.buffer_key
           seq == Get(rd.packet, "seq", None)
           tot == Get(rd.packet, "tot", None)
           fresh == key \notin DOMAIN PACKET_BUFFER
           entry0 == IF fresh
                     THEN [packets |-> <<>>, timestamp |-> now, total |-> tot]
                     ELSE PACKET_BUFFER[key]
           entry1 == [entry0 EXCEPT
                        !.packets = StorePart(@, seq, rd.packet),
                        !.timestamp = now]
       IN  /\ PACKET_BUFFER' = Put(PACKET_BUFFER, key, entry1)
           /\ sid' = IF fresh THEN Put(sid, key, ncalls) ELSE sid
           /\ calls' = IF fresh THEN Put(calls, key, <<>>) ELSE calls
           /\ rd' = [rd EXCEPT !.pc = "check", !.buffer_entry = entry1,
                               !.session = IF fresh THEN ncalls ELSE sid[key],
                               !.dup = seq \in Seqs(entry0.packets),
                               !.age = now - entry1.timestamp]
    /\ UNCHANGED <<DATA_QUEUE, now, jn, removals, ncalls, late>>
    /\ UNCHANGED <<scanner, delivery>>
    /\ UNCHANGED <<CFG, px>>

\* process_packet inside the lock: create the session if needed, store the part
ReaderStore ==
    /\ rd.pc = "lock"
    /\ LockFree
    /\ BUFFER_LOCK' = "reader"
    /\ LET key == rd.buffer_key
           seq == Get(rd.packet, "seq", None)
           tot == Get(rd.packet, "tot", None)
           fresh == key \notin DOMAIN PACKET_BUFFER
           entry0 == IF fresh
                     THEN [packets |-> <<>>, timestamp |-> now, total |-> tot]
                     ELSE PACKET_BUFFER[key]
           entry1 == [entry0 EXCEPT
                        !.packets = StorePart(@, seq, rd.packet)]
       IN  /\ PACKET_BUFFER' = Put(PACKET_BUFFER, key, entry1)
           /\ sid' = IF fresh THEN Put(sid, key, ncalls) ELSE sid
           /\ calls' = IF fresh THEN Put(calls, key, <<>>) ELSE calls
           /\ rd' = [rd EXCEPT !.pc = "check", !.buffer_entry = entry1,
                               !.session = IF fresh THEN ncalls ELSE sid[key],
                               !.dup = seq \in Seqs(entry0.packets),
                               !.age = now - entry1.timestamp]
    /\ UNCHANGED <<DATA_QUEUE, now, jn, removals, ncalls, late>>
    /\ UNCHANGED <<scanner, delivery>>
    /\ UNCHANGED <<CFG, px>>

\* process_packet inside the lock: count the parts, merge and delete when complete
ReaderCheck ==
    /\ rd.pc = "check"
    /\ LET key == rd.buffer_key
           buffer_entry == rd.buffer_entry
           received_count == Len(buffer_entry.packets)
           seq == Get(rd.packet, "seq", None)
           tot == Get(rd.packet, "tot", None)
           done == IsComplete(received_count, tot)
           merged == merge_packets(buffer_entry.packets)
       IN  /\ PACKET_BUFFER' = IF done THEN Pop(PACKET_BUFFER, key) ELSE PACKET_BUFFER
           /\ rd' = [rd EXCEPT !.pc = "put",
                               !.ret = IF done THEN Some(merged) ELSE Nothing]
           /\ calls' = Put(calls, key,
                           Append(Get(calls, key, <<>>),
                                  [seq |-> seq, tot |-> tot, merged |-> done]))
           /\ removals' = IF done
                          THEN [removals EXCEPT !.completed = Bump(@, {rd.session})]
                          ELSE removals
    /\ BUFFER_LOCK' = "free"
    /\ UNCHANGED <<DATA_QUEUE, now, jn, sid, ncalls, late>>
    /\ UNCHANGED <<scanner, delivery>>
    /\ UNCHANGED <<CFG, px>>

\* if complete_packet is not None: queue_put(complete_packet)
ReaderPut ==
    /\ rd.pc = "put"
    /\ DATA_QUEUE' = IF rd.ret.isNone THEN DATA_QUEUE
                     ELSE queue_put(DATA_QUEUE, rd.ret.val)
    /\ rd' = ReaderIdle
    /\ UNCHANGED <<PACKET_BUFFER, BUFFER_LOCK, now, jn, calls, sid, removals, ncalls, late>>
    /\ UNCHANGED <<scanner, delivery>>
    /\ UNCHANGED <<CFG, px>>

\* buf += SER_HANDLE.read(SER_HANDLE.in_waiting).decode(errors="ignore"), once
\* the lines of the previous read are done; in_waiting is any number of the bytes
\* still to come
ReaderRead(in_waiting) ==
    /\ rd.pc = "idle"
    /\ ~HasNewline(buf)
    /\ in_waiting \in 1..(Len(rx.stream) - rx.pos)
    /\ buf' = buf \o decode_ignore(SubSeq(rx.stream, rx.pos + 1, rx.pos + in_waiting))
    /\ rx' = [rx EXCEPT !.pos = @ + in_waiting]
    /\ UNCHANGED <<PACKET_BUFFER, BUFFER_LOCK, DATA_QUEUE, now, rd, jn, calls, sid,
                   removals, ncalls, late, lines, delivery>>
    /\ UNCHANGED <<CFG, px>>

\* while "\n" in buf: split one line off, strip it, and hand a [FOR_PI] envelope
\* with a JSON object to process_packet; any other line is passed over
ReaderScan ==
    /\ rd.pc = "idle"
    /\ HasNewline(buf)
    /\ LET stripped == Strip(BeforeNewline(buf))
           obj == ParseLine(stripped)
       IN  /\ buf' = AfterNewline(buf)
           /\ lines' = Append(lines, stripped)
           /\ rd' = IF obj.isNone THEN rd ELSE Decoded(obj.val)
           /\ ncalls' = IF obj.isNone THEN ncalls ELSE ncalls + 1
    /\ UNCHANGED <<PACKET_BUFFER, BUFFER_LOCK, DATA_QUEUE, now, jn, calls, sid,
                   removals, late, rx, delivery>>
    /\ UNCHANGED <<CFG, px>>

-----------------------------------------------------------------------------
(* Reader thread: the serial connection around the line loop *)

\* the process is alive: main() has not returned
Running == mn # "bye"

\* a port was found: with SER_LOCK: SER_HANDLE = serial.Serial(...)
ReaderOpen ==
    /\ Running
    /\ rc = "detect"
    /\ ~StopIsSet
    /\ link
    /\ SerLockFree
    /\ SER_HANDLE' = "open"
    /\ rc' = "announce"
    /\ UNCHANGED <<PACKET_BUFFER, BUFFER_LOCK, DATA_QUEUE, now, rd, jn, calls, sid,
                   removals, ncalls, late, scanner, STOP, SER_LOCK, link, sn, wr, mn>>
    /\ UNCHANGED <<CFG, px>>

\* send PI serial on connect: with SER_LOCK: SER_HANDLE.write(msg)
ReaderAnnounce ==
    /\ Running
    /\ rc = "announce"
    /\ SerLockFree
    /\ SER_LOCK' = "reader"
    /\ rc' = "flush"
    /\ UNCHANGED <<PACKET_BUFFER, BUFFER_LOCK, DATA_QUEUE, now, rd, jn, calls, sid,
                   removals, ncalls, late, scanner, STOP, SER_HANDLE, link, sn, wr, mn>>
    /\ UNCHANGED <<CFG, px>>

\* SER_HANDLE.flush() and the end of "with SER_LOCK"; the read loop starts
ReaderAnnounced ==
    /\ Running
    /\ rc = "flush"
    /\ SER_LOCK' = "free"
    /\ rc' = "read"
    /\ UNCHANGED <<PACKET_BUFFER, BUFFER_LOCK, DATA_QUEUE, now, rd, jn, calls, sid,
                   removals, ncalls, late, scanner, STOP, SER_HANDLE, link, sn, wr, mn>>
    /\ UNCHANGED <<CFG, px>>

ReaderDisconnect_ClearsSessions ==
    /\ Running
    /\ rc = "read"
    /\ rd.pc = "idle"
    /\ ~link \/ SER_HANDLE = "closed"
    /\ SerLockFree
    /\ SER_HANDLE' = "none"
    /\ rc' = "wait"
    /\ PACKET_BUFFER' = EmptyDict
    /\ UNCHANGED <<BUFFER_LOCK, DATA_QUEUE, now, rd, jn, calls, sid,
                   removals, ncalls, late, scanner, STOP, SER_LOCK, link, sn, wr, mn>>
    /\ UNCHANGED <<CFG, px>>

ReaderDisconnect_DropsBuf ==
    /\ Running
    /\ rc = "read"
    /\ rd.pc = "idle"
    /\ ~link \/ SER_HANDLE = "closed"
    /\ SerLockFree
    /\ SER_HANDLE' = "none"
    /\ rc' = "wait"
    /\ buf' = ""
    /\ UNCHANGED <<PACKET_BUFFER, BUFFER_LOCK, DATA_QUEUE, now, rd, jn, calls, sid,
                   removals, ncalls, late, rx, lines, STOP, SER_LOCK, link, sn, wr, mn>>
    /\ UNCHANGED <<CFG, px>>

\* SER_HANDLE.in_waiting raises (receiver unplugged, or handle closed by main):
\* except serial.SerialException: with SER_LOCK: close, SER_HANDLE = None; then
\* the wait before the next detection
ReaderDisconnect ==
    /\ Running
    /\ rc = "read"
    /\ rd.pc = "idle"
    /\ ~link \/ SER_HANDLE = "closed"
    /\ SerLockFree
    /\ SER_HANDLE' = "none"
    /\ rc' = "wait"
    /\ UNCHANGED <<PACKET_BUFFER, BUFFER_LOCK, DATA_QUEUE, now, rd, jn, calls, sid,
                   removals, ncalls, late, scanner, STOP, SER_LOCK, link, sn, wr, mn>>
    /\ UNCHANGED <<CFG, px>>

\* serial.Serial(port, ...) raises: the port is the configured one or the last
\* one seen, and the receiver is not there; except serial.SerialException: close
\* what SER_HANDLE still refers to, SER_HANDLE = None, then the wait
ReaderOpenFails ==
    /\ Running
    /\ rc = "detect"
    /\ ~StopIsSet
    /\ ~link
    /\ SerLockFree
    /\ SER_HANDLE' = "none"
    /\ rc' = "wait"
    /\ UNCHANGED <<PACKET_BUFFER, BUFFER_LOCK, DATA_QUEUE, now, rd, jn, calls, sid,
                   removals, ncalls, late, scanner, STOP, SER_LOCK, link, sn, wr, mn>>
    /\ UNCHANGED <<CFG, px>>

\* SER_HANDLE.read(...) raises with the receiver still there (the port is read by
\* someone else too): except Exception: break -- the read loop is left without an
\* exception, and the outer loop goes straight on to detect and open
ReaderReadFails ==
    /\ Running
    /\ rc = "read"
    /\ rd.pc = "idle"
    /\ link /\ SER_HANDLE = "open"
    /\ SerLockFree
    /\ rc' = "detect"
    /\ UNCHANGED <<PACKET_BUFFER, BUFFER_LOCK, DATA_QUEUE, now, rd, jn, calls, sid,
                   removals, ncalls, late, scanner, STOP, SER_HANDLE, SER_LOCK, link, sn,
                   wr, mn>>
    /\ UNCHANGED <<CFG, px>>

\* STOP.wait(CFG.serial_detect_interval_sec) is over, or STOP was set: back to the
\* top of the outer loop
ReaderRetry ==
    /\ Running
    /\ rc = "wait"
    /\ rc' = "detect"
    /\ UNCHANGED <<PACKET_BUFFER, BUFFER_LOCK, DATA_QUEUE, now, rd, jn, calls, sid,
                   removals, ncalls, late, scanner, STOP, SER_HANDLE, SER_LOCK, link, sn,
                   wr, mn>>
    /\ UNCHANGED <<CFG, px>>

\* while not STOP.is_set() is false: worker_serial_reader returns
ReaderLeave ==
    /\ Running
    /\ rc \in {"detect", "read"}
    /\ rd.pc = "idle"
    /\ StopIsSet
    /\ rc' = "exit"
    /\ UNCHANGED <<PACKET_BUFFER, BUFFER_LOCK, DATA_QUEUE, now, rd, jn, calls, sid,
                   removals, ncalls, late, scanner, STOP, SER_HANDLE, SER_LOCK, link, sn,
                   wr, mn>>
    /\ UNCHANGED <<CFG, px>>

\* a line that is not a [FOR_PI] envelope with a JSON object is passed over
ReaderPassOver(line) ==
    /\ Running
    /\ rc = "read"
    /\ rd.pc = "idle"
    /\ ncalls + Len(lines) < MaxJobs
    /\ ParseLine(line).isNone
    /\ lines' = Append(lines, line)
    /\ UNCHANGED <<PACKET_BUFFER, BUFFER_LOCK, DATA_QUEUE, now, rd, jn, calls, sid,
                   removals, ncalls, late, rx, buf, delivery>>
    /\ UNCHANGED <<CFG, px>>

\* the receiver is unplugged while the reader has it open
Unplug ==
    /\ Running
    /\ link
    /\ SER_HANDLE = "open"
    /\ link' = FALSE
    /\ UNCHANGED <<PACKET_BUFFER, BUFFER_LOCK, DATA_QUEUE, now, rd, jn, calls, sid,
                   removals, ncalls, late, scanner, STOP, SER_HANDLE, SER_LOCK, rc, sn,
                   wr, mn>>
    /\ UNCHANGED <<CFG, px>>

\* the receiver is plugged in again once the reader has dropped the handle
Plug ==
    /\ Running
    /\ ~link
    /\ SER_HANDLE = "none"
    /\ link' = TRUE
    /\ UNCHANGED <<PACKET_BUFFER, BUFFER_LOCK, DATA_QUEUE, now, rd, jn, calls, sid,
                   removals, ncalls, late, scanner, STOP, SER_HANDLE, SER_LOCK, rc, sn,
                   wr, mn>>
    /\ UNCHANGED <<CFG, px>>

-----------------------------------------------------------------------------
(* Delivery worker: worker_http_sender with send_hub_data / _http_post *)

SenderGet_Newest ==
    /\ Running
    /\ sn.pc = "get"
    /\ ~StopIsSet
    /\ DATA_QUEUE # <<>>
    /\ sn' = [SenderIdle EXCEPT !.pc = "got",
                                !.data = Some(DATA_QUEUE[Len(DATA_QUEUE)])]
    /\ DATA_QUEUE' = SubSeq(DATA_QUEUE, 1, Len(DATA_QUEUE) - 1)
    /\ UNCHANGED <<PACKET_BUFFER, BUFFER_LOCK, now, rd, jn, calls, sid, removals,
                   ncalls, late, scanner, STOP, SER_HANDLE, SER_LOCK, link, rc, wr, mn>>
    /\ UNCHANGED <<CFG, px>>

\* data = DATA_QUEUE.get(timeout=0.5), after "while not STOP.is_set()"
SenderGet ==
    /\ Running
    /\ sn.pc = "get"
    /\ ~StopIsSet
    /\ DATA_QUEUE # <<>>
    /\ sn' = [SenderIdle EXCEPT !.pc = "got", !.data = Some(Head(DATA_QUEUE))]
    /\ DATA_QUEUE' = Tail(DATA_QUEUE)
    /\ UNCHANGED <<PACKET_BUFFER, BUFFER_LOCK, now, rd, jn, calls, sid, removals,
                   ncalls, late, scanner, STOP, SER_HANDLE, SER_LOCK, link, rc, wr, mn>>
    /\ UNCHANGED <<CFG, px>>

\* while not STOP.is_set() is false: worker_http_sender returns
SenderLeave ==
    /\ Running
    /\ sn.pc = "get"
    /\ StopIsSet
    /\ sn' = [sn EXCEPT !.pc = "exit"]
    /\ UNCHANGED <<PACKET_BUFFER, BUFFER_LOCK, DATA_QUEUE, now, rd, jn, calls, sid,
                   removals, ncalls, late, scanner, STOP, SER_HANDLE, SER_LOCK, link, rc,
                   wr, mn>>
    /\ UNCHANGED <<CFG, px>>

\* if STOP.is_set(): task_done(); break -- else on to send_hub_data(payload)
SenderGot ==
    /\ Running
    /\ sn.pc = "got"
    /\ sn' = IF StopIsSet THEN [sn EXCEPT !.pc = "exit"]
             ELSE IF NoAttempts THEN [sn EXCEPT !.pc = "tag", !.ok = FALSE]
             ELSE [sn EXCEPT !.pc = "post", !.attempt = 1]
    /\ UNCHANGED <<PACKET_BUFFER, BUFFER_LOCK, DATA_QUEUE, now, rd, jn, calls, sid,
                   removals, ncalls, late, scanner, STOP, SER_HANDLE, SER_LOCK, link, rc,
                   wr, mn>>
    /\ UNCHANGED <<CFG, px>>

\* one round of the loop of _http_post: return False if STOP is set, else POST;
\* a 2xx status returns True, anything else goes to the backoff
SenderPost(resp) ==
    /\ Running
    /\ sn.pc = "post"
    /\ LET good == ~resp.error /\ IsSuccess(resp.status)
       IN  sn' = IF StopIsSet THEN [sn EXCEPT !.pc = "tag", !.ok = FALSE]
                 ELSE [sn EXCEPT !.log = Append(@, resp), !.ok = good,
                                 !.pc = IF good THEN "tag" ELSE "backoff"]
    /\ UNCHANGED <<PACKET_BUFFER, BUFFER_LOCK, DATA_QUEUE, now, rd, jn, calls, sid,
                   removals, ncalls, late, scanner, STOP, SER_HANDLE, SER_LOCK, link, rc,
                   wr, mn>>
    /\ UNCHANGED <<CFG, px>>

\* if STOP.wait(min(1 * attempt, 5)): return False -- else the next attempt, or
\* return False after the last one
SenderBackoff ==
    /\ Running
    /\ sn.pc = "backoff"
    /\ LET waited == [sn EXCEPT !.waits = Append(@, Backoff(sn.attempt))]
       IN  sn' = IF StopIsSet \/ LastAttempt(sn.attempt)
                 THEN [waited EXCEPT !.pc = "tag", !.ok = FALSE]
                 ELSE [waited EXCEPT !.pc = "post", !.attempt = @ + 1]
    /\ UNCHANGED <<PACKET_BUFFER, BUFFER_LOCK, DATA_QUEUE, now, rd, jn, calls, sid,
                   removals, ncalls, late, scanner, STOP, SER_HANDLE, SER_LOCK, link, rc,
                   wr, mn>>
    /\ UNCHANGED <<CFG, px>>

\* with SER_LOCK: if SER_HANDLE and SER_HANDLE.writable(): SER_HANDLE.write(tag)
SenderTag ==
    /\ Running
    /\ sn.pc = "tag"
    /\ SerLockFree
    /\ SER_LOCK' = "sender"
    /\ sn' = [sn EXCEPT !.pc = "flush",
                        !.tags = IF WriteGoesOut THEN Append(@, Tag(sn.ok)) ELSE @]
    /\ UNCHANGED <<PACKET_BUFFER, BUFFER_LOCK, DATA_QUEUE, now, rd, jn, calls, sid,
                   removals, ncalls, late, scanner, STOP, SER_HANDLE, link, rc, wr, mn>>
    /\ UNCHANGED <<CFG, px>>

\* SER_HANDLE.flush(), the end of "with SER_LOCK", and DATA_QUEUE.task_done()
SenderDone ==
    /\ Running
    /\ sn.pc = "flush"
    /\ SER_LOCK' = "free"
    /\ sn' = SenderIdle
    /\ UNCHANGED <<PACKET_BUFFER, BUFFER_LOCK, DATA_QUEUE, now, rd, jn, calls, sid,
                   removals, ncalls, late, scanner, STOP, SER_HANDLE, link, rc, wr, mn>>
    /\ UNCHANGED <<CFG, px>>

-----------------------------------------------------------------------------
(* The periodic serial writers: worker_heartbeat_to_receiver, worker_send_pi_serial *)

\* the timed STOP.wait is over and STOP is not set: on to "with SER_LOCK"
WriterLoop(w) ==
    /\ Running
    /\ wr[w] = "wait"
    /\ ~StopIsSet
    /\ wr' = [wr EXCEPT ![w] = "lock"]
    /\ UNCHANGED <<PACKET_BUFFER, BUFFER_LOCK, DATA_QUEUE, now, rd, jn, calls, sid,
                   removals, ncalls, late, scanner, STOP, SER_HANDLE, SER_LOCK, link, rc,
                   sn, mn>>
    /\ UNCHANGED <<CFG, px>>

\* with SER_LOCK: if SER_HANDLE and SER_HANDLE.writable(): SER_HANDLE.write(...)
WriterBegin(w) ==
    /\ Running
    /\ wr[w] = "lock"
    /\ SerLockFree
    /\ SER_LOCK' = w
    /\ wr' = [wr EXCEPT ![w] = "flush"]
    /\ UNCHANGED <<PACKET_BUFFER, BUFFER_LOCK, DATA_QUEUE, now, rd, jn, calls, sid,
                   removals, ncalls, late, scanner, STOP, SER_HANDLE, link, rc, sn, mn>>
    /\ UNCHANGED <<CFG, px>>

\* SER_HANDLE.flush(), the end of "with SER_LOCK"; the timed STOP.wait starts
WriterEnd(w) ==
    /\ Running
    /\ wr[w] = "flush"
    /\ SER_LOCK' = "free"
    /\ wr' = [wr EXCEPT ![w] = "wait"]
    /\ UNCHANGED <<PACKET_BUFFER, BUFFER_LOCK, DATA_QUEUE, now, rd, jn, calls, sid,
                   removals, ncalls, late, scanner, STOP, SER_HANDLE, link, rc, sn, mn>>
    /\ UNCHANGED <<CFG, px>>

\* while not STOP.is_set() is false: the writer returns
WriterLeave(w) ==
    /\ Running
    /\ wr[w] = "wait"
    /\ StopIsSet
    /\ wr' = [wr EXCEPT ![w] = "exit"]
    /\ UNCHANGED <<PACKET_BUFFER, BUFFER_LOCK, DATA_QUEUE, now, rd, jn, calls, sid,
                   removals, ncalls, late, scanner, STOP, SER_HANDLE, SER_LOCK, link, rc,
                   sn, mn>>
    /\ UNCHANGED <<CFG, px>>

-----------------------------------------------------------------------------
(* The sender with GPS of src/raspi/tesGPS.py: its producers hand their records
   to the dispatch queue, and its delivery worker sends with post_payload *)

\* build_raspi_sys() and build_gps_payload(gps), with one of the measured fields
Sample(w) ==
    IF w = "sys"
    THEN [k \in {"sensor_controller_id", "uptime_s", "ts_iso"} |->
            IF k = "sensor_controller_id" THEN "RASPI_SYS"
            ELSE IF k = "ts_iso" THEN UtcNowIso ELSE "60"]
    ELSE [k \in {"sensor_controller_id", "sats", "ts_iso"} |->
            IF k = "sensor_controller_id" THEN "GPS_FIX"
            ELSE IF k = "ts_iso" THEN UtcNowIso ELSE "7"]

\* worker_push_sys_metrics / worker_gps_uploader_interval of tesGPS.py: the timed
\* STOP.wait is over and STOP is not set: queue_put(build_...()), next wait
ProducerPut(w) ==
    /\ Running
    /\ px[w].pc = "wait"
    /\ ~StopIsSet
    /\ px[w].rounds < MaxJobs
    /\ DATA_QUEUE' = queue_put(DATA_QUEUE, Sample(w))
    /\ px' = [px EXCEPT ![w].rounds = @ + 1]
    /\ UNCHANGED <<PACKET_BUFFER, BUFFER_LOCK, now, rd, jn, calls, sid, removals,
                   ncalls, late, scanner, delivery, CFG>>

\* while not STOP.is_set() is false: the worker returns
PusherLeave(w) ==
    /\ Running
    /\ px[w].pc = "wait"
    /\ StopIsSet
    /\ px' = [px EXCEPT ![w].pc = "exit"]
    /\ UNCHANGED <<PACKET_BUFFER, BUFFER_LOCK, DATA_QUEUE, now, rd, jn, calls, sid,
                   removals, ncalls, late, scanner, delivery, CFG>>

\* worker_http_sender of tesGPS.py after DATA_QUEUE.get: payload, post_payload
PayloadStart ==
    /\ Running
    /\ sn.pc = "got"
    /\ sn' = IF NoAttempts THEN [sn EXCEPT !.pc = "tag", !.ok = FALSE]
             ELSE [sn EXCEPT !.pc = "post", !.attempt = 1]
    /\ UNCHANGED <<PACKET_BUFFER, BUFFER_LOCK, DATA_QUEUE, now, rd, jn, calls, sid,
                   removals, ncalls, late, scanner, STOP, SER_HANDLE, SER_LOCK, link, rc,
                   wr, mn, CFG, px>>

\* one round of the loop of post_payload: POST; a 2xx status returns True,
\* anything else goes to the backoff
PayloadPost(resp) ==
    /\ Running
    /\ sn.pc = "post"
    /\ LET good == ~resp.error /\ IsSuccess(resp.status)
       IN  sn' = [sn EXCEPT !.log = Append(@, resp), !.ok = good,
                            !.pc = IF good THEN "tag" ELSE "backoff"]
    /\ UNCHANGED <<PACKET_BUFFER, BUFFER_LOCK, DATA_QUEUE, now, rd, jn, calls, sid,
                   removals, ncalls, late, scanner, STOP, SER_HANDLE, SER_LOCK, link, rc,
                   wr, mn, CFG, px>>

\* time.sleep(min(1 * attempt, 5)), then the next attempt, or return False after
\* the last one
PayloadBackoff ==
    /\ Running
    /\ sn.pc = "backoff"
    /\ LET waited == [sn EXCEPT !.waits = Append(@, Backoff(sn.attempt))]
       IN  sn' = IF LastAttempt(sn.attempt)
                 THEN [waited EXCEPT !.pc = "tag", !.ok = FALSE]
                 ELSE [waited EXCEPT !.pc = "post", !.attempt = @ + 1]
    /\ UNCHANGED <<PACKET_BUFFER, BUFFER_LOCK, DATA_QUEUE, now, rd, jn, calls, sid,
                   removals, ncalls, late, scanner, STOP, SER_HANDLE, SER_LOCK, link, rc,
                   wr, mn, CFG, px>>

-----------------------------------------------------------------------------
(* Shutdown: the signal handler and the end of main() *)

\* SIGINT / SIGTERM: STOP.set()
Signal ==
    /\ Running
    /\ ~STOP
    /\ STOP' = TRUE
    /\ UNCHANGED <<PACKET_BUFFER, BUFFER_LOCK, DATA_QUEUE, now, rd, jn, calls, sid,
                   removals, ncalls, late, scanner, SER_HANDLE, SER_LOCK, link, rc, sn,
                   wr, mn>>
    /\ UNCHANGED <<CFG, px>>

\* while not STOP.is_set(): time.sleep(0.5) is over; end = time.time() + 3.0
MainStopping ==
    /\ mn = "run"
    /\ StopIsSet
    /\ mn' = "drain"
    /\ UNCHANGED <<PACKET_BUFFER, BUFFER_LOCK, DATA_QUEUE, now, rd, jn, calls, sid,
                   removals, ncalls, late, scanner, STOP, SER_HANDLE, SER_LOCK, link, rc,
                   sn, wr>>
    /\ UNCHANGED <<CFG, px>>

\* while time.time() < end and not DATA_QUEUE.empty(): the queue is empty
MainDrained ==
    /\ mn = "drain"
    /\ DATA_QUEUE = <<>>
    /\ mn' = "close"
    /\ UNCHANGED <<PACKET_BUFFER, BUFFER_LOCK, DATA_QUEUE, now, rd, jn, calls, sid,
                   removals, ncalls, late, scanner, STOP, SER_HANDLE, SER_LOCK, link, rc,
                   sn, wr>>
    /\ UNCHANGED <<CFG, px>>

\* while time.time() < end and not DATA_QUEUE.empty(): the 3 seconds are over
MainGraceOver ==
    /\ mn = "drain"
    /\ DATA_QUEUE # <<>>
    /\ mn' = "close"
    /\ UNCHANGED <<PACKET_BUFFER, BUFFER_LOCK, DATA_QUEUE, now, rd, jn, calls, sid,
                   removals, ncalls, late, scanner, STOP, SER_HANDLE, SER_LOCK, link, rc,
                   sn, wr>>
    /\ UNCHANGED <<CFG, px>>

\* with SER_LOCK: if SER_HANDLE: SER_HANDLE.close(); main() returns
MainClose ==
    /\ mn = "close"
    /\ SerLockFree
    /\ SER_HANDLE' = IF SER_HANDLE = "open" THEN "closed" ELSE SER_HANDLE
    /\ mn' = "bye"
    /\ UNCHANGED <<PACKET_BUFFER, BUFFER_LOCK, DATA_QUEUE, now, rd, jn, calls, sid,
                   removals, ncalls, late, scanner, STOP, SER_LOCK, link, rc, sn, wr>>
    /\ UNCHANGED <<CFG, px>>

-----------------------------------------------------------------------------
(* Janitor thread: worker_buffer_cleanup / cleanup_stale_buffers *)

\* the timed wait is over; now = time.time()
JanitorWake ==
    /\ jn.pc = "wait"
    /\ ~StopIsSet
    /\ now >= jn.wake
    /\ jn' = [jn EXCEPT !.pc = "lock", !.now = now]
    /\ UNCHANGED <<PACKET_BUFFER, BUFFER_LOCK, DATA_QUEUE, now, rd, calls, sid,
                   removals, ncalls, late>>
    /\ UNCHANGED <<scanner, delivery>>
    /\ UNCHANGED <<CFG, px>>

\* with BUFFER_LOCK: collect the stale keys
JanitorScan ==
    /\ jn.pc = "lock"
    /\ LockFree
    /\ BUFFER_LOCK' = "janitor"
    /\ LET stale_keys == {key \in DOMAIN PACKET_BUFFER :
                            IsStale(jn.now - PACKET_BUFFER[key].timestamp)}
       IN  jn' = [jn EXCEPT !.pc = "del", !.stale_keys = stale_keys,
                            !.stale_sessions = {sid[key] : key \in stale_keys}]
    /\ UNCHANGED <<PACKET_BUFFER, DATA_QUEUE, now, rd, calls, sid, removals, ncalls, late>>
    /\ UNCHANGED <<scanner, delivery>>
    /\ UNCHANGED <<CFG, px>>

\* for key in stale_keys: del PACKET_BUFFER[key]; then the next timed wait starts
JanitorDelete ==
    /\ jn.pc = "del"
    /\ PACKET_BUFFER' = [key \in (DOMAIN PACKET_BUFFER) \ jn.stale_keys |->
                            PACKET_BUFFER[key]]
    /\ BUFFER_LOCK' = "free"
    /\ removals' = [removals EXCEPT !.evicted = Bump(@, jn.stale_sessions)]
    /\ jn' = [pc |-> "wait", now |-> 0, stale_keys |-> {}, stale_sessions |-> {},
              wake |-> now + SweepPeriod]
    /\ UNCHANGED <<DATA_QUEUE, now, rd, calls, sid, ncalls, late>>
    /\ UNCHANGED <<scanner, delivery>>
    /\ UNCHANGED <<CFG, px>>

\* while not STOP.is_set() is false: worker_buffer_cleanup returns
JanitorLeave ==
    /\ Running
    /\ jn.pc = "wait"
    /\ StopIsSet
    /\ jn' = [jn EXCEPT !.pc = "exit"]
    /\ UNCHANGED <<PACKET_BUFFER, BUFFER_LOCK, DATA_QUEUE, now, rd, calls, sid,
                   removals, ncalls, late, scanner, delivery>>
    /\ UNCHANGED <<CFG, px>>

\* time passes; one unit of the clock is far longer than a pass through
\* process_packet or cleanup_stale_buffers, so the clock moves between them
Tick ==
    /\ now < MaxTime
    /\ rd.pc = "idle"
    /\ jn.pc = "wait"
    /\ now' = now + 1
    /\ late' = (late \/ now >= jn.wake)
    /\ UNCHANGED <<PACKET_BUFFER, BUFFER_LOCK, DATA_QUEUE, rd, jn, calls, sid,
                   removals, ncalls>>
    /\ UNCHANGED <<scanner, delivery>>
    /\ UNCHANGED <<CFG, px>>

Next ==
    \/ \E parsed \in CoreLines : ReaderLine(parsed)
    \/ ReaderStore
    \/ ReaderCheck
    \/ ReaderPut
    \/ JanitorWake
    \/ JanitorScan
    \/ JanitorDelete
    \/ Tick

Spec == Init /\ [][Next]_vars

\* the reader alone, fed every kind of line
NextReader ==
    \/ \E parsed \in AllLines : ReaderLine(parsed)
    \/ ReaderStore
    \/ ReaderCheck
    \/ ReaderPut

SpecReader == Init /\ [][NextReader]_vars

\* the reader fed through the serial line, for each of the byte streams and every
\* way of cutting the stream into reads
InitScanner ==
    /\ InitBuffers
    /\ rx \in {[stream |-> stream, pos |-> 0] : stream \in Streams}
    /\ buf = ""
    /\ lines = <<>>
    /\ DeliveryIdle
    /\ PushersIdle
    /\ Configured

NextScanner ==
    \/ \E n \in 1..Len(rx.stream) : ReaderRead(n)
    \/ ReaderScan
    \/ ReaderStore
    \/ ReaderCheck
    \/ ReaderPut

SpecScanner == InitScanner /\ [][NextScanner]_vars

\* the lines the reader is handed while the delivery side runs: a packet that is
\* not multi-part and a one-part batch
DeliveryLines == {Put(Body(0), "id", "B"), Part("A", 0, 1, Body(0))}

\* reader, delivery worker, serial writers and main(), up to the return of main()
NextDelivery ==
    \/ ReaderOpen
    \/ ReaderAnnounce
    \/ ReaderAnnounced
    \/ \E parsed \in DeliveryLines :
          Running /\ rc = "read" /\ ncalls < MaxJobs /\ ReaderLine(parsed)
    \/ Running /\ ReaderStore
    \/ Running /\ ReaderCheck
    \/ Running /\ ReaderPut
    \/ ReaderDisconnect
    \/ ReaderOpenFails
    \/ ReaderReadFails
    \/ ReaderRetry
    \/ ReaderLeave
    \/ Unplug
    \/ Plug
    \/ SenderGet
    \/ SenderLeave
    \/ SenderGot
    \/ \E resp \in Responses : SenderPost(resp)
    \/ SenderBackoff
    \/ SenderTag
    \/ SenderDone
    \/ \E w \in Writers : WriterLoop(w)
    \/ \E w \in Writers : WriterBegin(w)
    \/ \E w \in Writers : WriterEnd(w)
    \/ \E w \in Writers : WriterLeave(w)
    \/ Signal
    \/ MainStopping
    \/ MainDrained
    \/ MainGraceOver
    \/ MainClose

SpecDelivery == Init /\ [][NextDelivery]_vars

\* the lines fed to the three loops: a packet that is not multi-part, the parts
\* of a two-part batch, and lines that yield no packet
LoopLines ==
    {Put(Body(0), "id", "B"), Part("A", 0, 2, Body(0)), Part("A", 1, 2, Body(1))}
BadLines == {"[FOR_PI]{bad}", "boot ok"}

\* the reader, janitor and delivery-worker loops with everything that can go
\* wrong around them, and the shutdown signal; the clock is looked at while the
\* delivery worker is between two records
NextLoops ==
    \/ ReaderOpen
    \/ ReaderAnnounce
    \/ ReaderAnnounced
    \/ \E parsed \in LoopLines :
          rc = "read" /\ ncalls + Len(lines) < MaxJobs /\ ReaderLine(parsed)
    \/ \E line \in BadLines : ReaderPassOver(line)
    \/ Running /\ ReaderStore
    \/ Running /\ ReaderCheck
    \/ Running /\ ReaderPut
    \/ ReaderDisconnect
    \/ ReaderOpenFails
    \/ ReaderReadFails
    \/ ReaderRetry
    \/ ReaderLeave
    \/ Unplug
    \/ Plug
    \/ Running /\ JanitorWake
    \/ Running /\ JanitorScan
    \/ Running /\ JanitorDelete
    \/ JanitorLeave
    \/ ~STOP /\ sn.pc = "get" /\ Tick
    \/ SenderGet
    \/ SenderLeave
    \/ SenderGot
    \/ \E resp \in {Response(200), TransportError} : SenderPost(resp)
    \/ SenderBackoff
    \/ SenderTag
    \/ SenderDone
    \/ Signal

SpecLoops == Init /\ [][NextLoops]_vars

\* the values of HTTP_MAX_RETRY the retry loop is run with
RetryOptions == (-1)..MaxRetry

\* one packet through the delivery worker, for each value of HTTP_MAX_RETRY
InitRetry ==
    /\ InitBuffers
    /\ ScannerIdle
    /\ DeliveryIdle
    /\ PushersIdle
    /\ CFG \in {[Config EXCEPT !.http_max_retry = n] : n \in RetryOptions}

NextRetry ==
    \/ ncalls < MaxJobs /\ ReaderLine(Put(Body(0), "id", "B"))
    \/ ReaderPut
    \/ SenderGet
    \/ SenderLeave
    \/ SenderGot
    \/ \E resp \in {Response(200), TransportError} : SenderPost(resp)
    \/ SenderBackoff
    \/ SenderTag
    \/ SenderDone
    \/ Signal

SpecRetry == InitRetry /\ [][NextRetry]_vars

\* the values of QUEUE_MAXSIZE the dispatch queue is created with
QueueOptions == (-1)..MaxQueue

\* the reader as producer and the delivery worker as consumer, for each value of
\* QUEUE_MAXSIZE
InitQueue ==
    /\ InitBuffers
    /\ ScannerIdle
    /\ DeliveryIdle
    /\ PushersIdle
    /\ CFG \in {[Config EXCEPT !.queue_maxsize = n] : n \in QueueOptions}

NextQueue ==
    \/ \E parsed \in DeliveryLines : ReaderLine(parsed)
    \/ ReaderStore
    \/ ReaderCheck
    \/ ReaderPut
    \/ SenderGet
    \/ SenderGot
    \/ \E resp \in {Response(200), TransportError} : SenderPost(resp)
    \/ SenderBackoff
    \/ SenderTag
    \/ SenderDone

SpecQueue == InitQueue /\ [][NextQueue]_vars

\* tesGPS.py: the two periodic producers, the delivery worker and the shutdown
\* signal
NextTesGps ==
    \/ \E w \in Pushers : ProducerPut(w)
    \/ \E w \in Pushers : PusherLeave(w)
    \/ SenderGet
    \/ SenderLeave
    \/ PayloadStart
    \/ \E resp \in Responses : PayloadPost(resp)
    \/ PayloadBackoff
    \/ SenderTag
    \/ SenderDone
    \/ Signal

SpecTesGps == Init /\ [][NextTesGps]_vars

\* the reader, the delivery worker and the periodic serial writers, with no
\* shutdown signal
NextLive ==
    \/ NextQueue
    \/ \E w \in Writers : WriterLoop(w)
    \/ \E w \in Writers : WriterBegin(w)
    \/ \E w \in Writers : WriterEnd(w)

\* the delivery worker is a thread of its own and keeps running: its steps are
\* taken when they stay possible, every HTTP_SESSION.post returns or times out
\* (timeout=to), and the blocking acquire of SER_LOCK succeeds when the lock keeps
\* coming free; a writer inside "with SER_LOCK" writes, flushes and leaves
FairSender ==
    /\ \A w \in Writers : WF_vars(WriterEnd(w))
    /\ WF_vars(SenderGet)
    /\ WF_vars(SenderGot)
    /\ WF_vars(\E resp \in {Response(200), TransportError} : SenderPost(resp))
    /\ WF_vars(SenderBackoff)
    /\ SF_vars(SenderTag)
    /\ WF_vars(SenderDone)

SpecLive == InitQueue /\ [][NextLive]_vars /\ FairSender

-----------------------------------------------------------------------------
(* Vocabulary of the properties *)

\* the reader has just returned from a process_packet call that merged a session
Completed == rd.pc = "put" /\ rd.buffer_key # "" /\ ~rd.ret.isNone

\* the parts that were merged, in the order their indices were first stored
MergedParts == rd.buffer_entry.packets

\* a field with a port-scoped name
PortField(f) == Len(f) >= 5 /\ SubSeq(f, 1, 5) = "port-"

\* the parts of a session that carry field f, as positions of the stored items
Holders(items, f) == {i \in 1..Len(items) : f \in DOMAIN items[i].packet}

\* the call log c is that of a complete set: indices 0..N-1, each admitted once,
\* each with tot = N
CleanRun(c, N) ==
    /\ N >= 1
    /\ \A i \in 1..Len(c) : c[i].tot = N /\ c[i].seq \in 0..(N - 1)
    /\ \A i, j \in 1..Len(c) : c[i].seq = c[j].seq => i = j

\* the position in the call log c of the latest call that carried index s
LastArrival(c, s) ==
    CHOOSE j \in 1..Len(c) :
        c[j].seq = s /\ \A later \in (j + 1)..Len(c) : c[later].seq # s

\* all orders of the items of a sequence
Orders(items) ==
    {[i \in 1..Len(items) |-> items[order[i]]] : order \in Permutations(1..Len(items))}

WasEvicted(id) == Count(removals.evicted, id) > 0
WasCompleted(id) == Count(removals.completed, id) > 0

-----------------------------------------------------------------------------
\* C1: when the parts 0..N-1 of a batch (tot = N, each index admitted once, the
\* session not evicted meanwhile) are admitted in any order, the call that stores
\* the N-th part returns the merged record, every other call returns None, and
\* after that call the table has no entry for the key; before it, it has one.
C1_ExactlyOneMerge ==
    \A key \in DOMAIN calls :
        LET c == calls[key]
        IN  (Len(c) >= 1 /\ CleanRun(c, c[1].tot) /\ ~WasEvicted(sid[key])) =>
                /\ \A i \in 1..Len(c) : c[i].merged <=> (i = c[1].tot)
                /\ Len(c) = c[1].tot => key \notin DOMAIN PACKET_BUFFER
                /\ Len(c) < c[1].tot => key \in DOMAIN PACKET_BUFFER

\* a three-part batch has been admitted highest index first and has completed
C1_Witness ==
    \E key \in DOMAIN calls :
        /\ Len(calls[key]) = 3
        /\ CleanRun(calls[key], 3)
        /\ calls[key][1].seq = 2
        /\ calls[key][3].merged
        /\ key \notin DOMAIN PACKET_BUFFER

\* C2 as claimed: every port- field of the merged record has the value of the part
\* received last, in arrival order, among the parts that carry the field.
C2_LastReceivedWins ==
    Completed =>
        \A f \in DOMAIN rd.ret.val :
            PortField(f) =>
                \E i \in Holders(MergedParts, f) :
                    /\ \A j \in Holders(MergedParts, f) :
                          LastArrival(calls[rd.buffer_key], MergedParts[j].seq)
                            <= LastArrival(calls[rd.buffer_key], MergedParts[i].seq)
                    /\ rd.ret.val[f] = MergedParts[i].packet[f]

\* C2 as amended: every port- field of the merged record has the value of the part
\* with the highest sequence index among the parts that carry the field.
C2_HighestIndexWins ==
    Completed =>
        \A f \in DOMAIN rd.ret.val :
            PortField(f) =>
                \E i \in Holders(MergedParts, f) :
                    /\ \A j \in Holders(MergedParts, f) :
                          MergedParts[j].seq <= MergedParts[i].seq
                    /\ rd.ret.val[f] = MergedParts[i].packet[f]

\* a batch has completed whose part 1 arrived before its part 0, both with port-1
C2_Witness ==
    /\ Completed
    /\ Len(MergedParts) = 2
    /\ MergedParts[1].seq = 1 /\ MergedParts[2].seq = 0
    /\ Holders(MergedParts, "port-1") = {1, 2}
    /\ MergedParts[1].packet["port-1"] # MergedParts[2].packet["port-1"]

\* C3: a port- field carried by more than one part takes the value of the part
\* with the highest index that carries it, and the merged record is the same for
\* every order in which the parts may have arrived.
C3_OrderIndependent ==
    Completed =>
        /\ \A f \in DOMAIN rd.ret.val :
              (PortField(f) /\ Cardinality(Holders(MergedParts, f)) > 1) =>
                  \A i \in Holders(MergedParts, f) :
                      (\A j \in Holders(MergedParts, f) :
                          MergedParts[j].seq <= MergedParts[i].seq)
                          => rd.ret.val[f] = MergedParts[i].packet[f]
        /\ \A other \in Orders(MergedParts) : merge_packets(other) = rd.ret.val

\* a three-part batch has completed, stored in an order that is not by index, with
\* port-2 carried by two of its parts
C3_Witness ==
    /\ Completed
    /\ Len(MergedParts) = 3
    /\ MergedParts[1].seq > MergedParts[2].seq
    /\ Cardinality(Holders(MergedParts, "port-2")) = 2

\* C4: every field of the merged record that is not a port- field is a field of the
\* lowest-index part, with that part's value: a non-port field of a later part
\* neither appears in the merged record nor overrides the base value.
C4_NonPortFromBase ==
    Completed =>
        \E b \in 1..Len(MergedParts) :
            /\ \A j \in 1..Len(MergedParts) : MergedParts[b].seq <= MergedParts[j].seq
            /\ \A f \in DOMAIN rd.ret.val :
                  ~PortField(f) =>
                      /\ f \in DOMAIN MergedParts[b].packet
                      /\ rd.ret.val[f] = MergedParts[b].packet[f]

\* a batch has completed in which a later part has a non-port field the base lacks
\* and another value for a non-port field the base has
C4_Witness ==
    /\ Completed
    /\ \E b, j \in 1..Len(MergedParts) :
          /\ MergedParts[b].seq = 0 /\ MergedParts[j].seq > 0
          /\ "hum" \in DOMAIN MergedParts[j].packet
          /\ "hum" \notin DOMAIN MergedParts[b].packet
          /\ MergedParts[j].packet["temp"] # MergedParts[b].packet["temp"]
    /\ \E j \in 1..Len(MergedParts) : "report-1" \in DOMAIN MergedParts[j].packet

\* C5 as claimed: no record handed to the dispatch queue has a seq or a tot field.
C5_NoSeqTotQueued ==
    /\ \A i \in 1..Len(DATA_QUEUE) :
          "seq" \notin DOMAIN DATA_QUEUE[i] /\ "tot" \notin DOMAIN DATA_QUEUE[i]
    /\ (rd.pc = "put" /\ ~rd.ret.isNone) =>
          ("seq" \notin DOMAIN rd.ret.val /\ "tot" \notin DOMAIN rd.ret.val)

\* C6 as claimed: admitting a part whose index the session already holds returns
\* None, keeps the session in the table and changes neither its total nor the
\* number of indices it holds.
C6_ReadmitIsIdle ==
    (rd.pc = "put" /\ rd.dup) =>
        /\ rd.ret.isNone
        /\ rd.buffer_key \in DOMAIN PACKET_BUFFER
        /\ PACKET_BUFFER[rd.buffer_key] = rd.buffer_entry

\* C7 as claimed: no merged record comes from a session that is older than the
\* staleness timeout (the janitor not being late for its sweep).
C7_NoMergeAfterTimeout ==
    (Completed /\ ~late) => rd.age <= packet_buffer_timeout

\* C7 as amended: a sweep of the janitor removes every session whose age exceeds
\* the timeout at that sweep and queues nothing; a session the janitor has evicted
\* never yields a merged record, and a record is only ever merged from parts
\* admitted to the session that completes.
C7_EvictionIsFinal ==
    [][ /\ (jn.pc = "del" /\ jn'.pc = "wait") =>
              /\ \A key \in DOMAIN PACKET_BUFFER :
                    (jn.now - PACKET_BUFFER[key].timestamp > packet_buffer_timeout)
                        => key \notin DOMAIN PACKET_BUFFER'
              /\ DATA_QUEUE' = DATA_QUEUE
        /\ \A id \in DOMAIN removals'.evicted : ~WasCompleted(id)'
        /\ Completed' =>
              Seqs(MergedParts') =
                  {calls'[rd'.buffer_key][i].seq : i \in 1..Len(calls'[rd'.buffer_key])}
      ]_vars

\* the janitor has evicted an incomplete session of A, and a part of A that
\* arrived afterwards has started a new session and returned None
C7_Witness ==
    /\ DOMAIN sid = {"A_0"}
    /\ DOMAIN removals.evicted # {}
    /\ DOMAIN removals.completed = {}
    /\ rd.pc = "put" /\ rd.buffer_key = "A_0" /\ rd.ret.isNone
    /\ "A_0" \in DOMAIN PACKET_BUFFER
    /\ Len(PACKET_BUFFER["A_0"].packets) = 1

\* C8: process_packet on a packet without seq and tot returns that packet, every
\* field unchanged, and neither creates, changes nor removes a session.
C8_PassThrough ==
    [][ (rd.pc = "idle" /\ rd'.pc # "idle"
            /\ "seq" \notin DOMAIN rd'.packet /\ "tot" \notin DOMAIN rd'.packet) =>
              /\ rd'.pc = "put"
              /\ rd'.ret = Some(rd'.packet)
              /\ PACKET_BUFFER' = PACKET_BUFFER
              /\ BUFFER_LOCK' = BUFFER_LOCK
      ]_vars

\* a packet without sequence metadata has been returned while a session was open
C8_Witness ==
    /\ rd.pc = "put"
    /\ "seq" \notin DOMAIN rd.packet /\ "tot" \notin DOMAIN rd.packet
    /\ ~rd.ret.isNone
    /\ DOMAIN PACKET_BUFFER # {}

\* C9 as claimed: a session never holds more parts than its expected total
\* (looked at whenever no thread is inside the table lock).
C9_PartsWithinTotal ==
    BUFFER_LOCK = "free" => \A key \in DOMAIN PACKET_BUFFER :
        Len(PACKET_BUFFER[key].packets) <= PACKET_BUFFER[key].total

\* C10: the store-check-remove of process_packet and the scan-and-remove of
\* cleanup_stale_buffers run inside BUFFER_LOCK, one at a time, on a table the other
\* thread cannot change; a session is removed at most once, by completion or by
\* eviction, and the latest session of a key has left the table exactly when it
\* has been removed once.
C10_RemovedOnce ==
    /\ rd.pc = "check" =>
          /\ BUFFER_LOCK = "reader"
          /\ rd.buffer_key \in DOMAIN PACKET_BUFFER
          /\ PACKET_BUFFER[rd.buffer_key] = rd.buffer_entry
    /\ jn.pc = "del" =>
          /\ BUFFER_LOCK = "janitor"
          /\ jn.stale_keys \subseteq DOMAIN PACKET_BUFFER
          /\ jn.stale_sessions = {sid[key] : key \in jn.stale_keys}
    /\ \A id \in (DOMAIN removals.completed) \cup (DOMAIN removals.evicted) :
          Count(removals.completed, id) + Count(removals.evicted, id) = 1
    /\ \A key \in DOMAIN sid :
          key \in DOMAIN PACKET_BUFFER <=>
              ~(WasCompleted(sid[key]) \/ WasEvicted(sid[key]))

\* one session has left the table by eviction and another one by completion
C10_Witness ==
    /\ DOMAIN removals.evicted # {}
    /\ DOMAIN removals.completed # {}
    /\ PACKET_BUFFER = EmptyDict

\* C11: with nobody taking from the queue, a queue_put on a full queue returns to
\* the reader, which goes on to its next line, with the queue exactly as it was:
\* the incoming record is the one dropped; a queue_put on a queue with room appends
\* the record at the tail; so the first record enqueued stays at the head.
C11_FullQueueDropsIncoming ==
    [][ /\ (rd.pc = "put" /\ ~rd.ret.isNone /\ Len(DATA_QUEUE) = queue_maxsize) =>
              (DATA_QUEUE' = DATA_QUEUE /\ rd'.pc = "idle")
        /\ (rd.pc = "put" /\ ~rd.ret.isNone /\ Len(DATA_QUEUE) < queue_maxsize) =>
              DATA_QUEUE' = Append(DATA_QUEUE, rd.ret.val)
        /\ \/ DATA_QUEUE' = DATA_QUEUE
           \/ (Len(DATA_QUEUE') = Len(DATA_QUEUE) + 1
                 /\ SubSeq(DATA_QUEUE', 1, Len(DATA_QUEUE)) = DATA_QUEUE)
      ]_vars

\* the plain packet was enqueued into the queue of capacity 1, a two-part batch
\* completed afterwards, and its merged record was dropped: the queue still holds
\* the plain packet and the reader is back at its loop
C11_Witness ==
    /\ rd.pc = "idle"
    /\ DATA_QUEUE = <<Normalize(Plain, UtcNowIso)>>
    /\ \E key \in DOMAIN calls : Len(calls[key]) = 2 /\ calls[key][2].merged

\* C20 as claimed: a call of process_packet that stored a part returns the merged
\* record exactly when the session then holds as many indices as the total that
\* was recorded when the session was created.
C20_CompletesAtSessionTotal ==
    (rd.pc = "put" /\ rd.buffer_key # "") =>
        (~rd.ret.isNone <=> Len(rd.buffer_entry.packets) = rd.buffer_entry.total)

\* C17 as claimed: the lines split off so far are the first lines of the stream as
\* a whole, and once the stream has been read and scanned, the lines extracted and
\* the text left in buf are those of reading the stream in one piece, however the
\* reads cut it.
C17_ChunkingIrrelevant ==
    LET text == decode_ignore(rx.stream)
    IN  /\ Len(lines) <= Len(LinesOf(text))
        /\ lines = SubSeq(LinesOf(text), 1, Len(lines))
        /\ (rx.pos = Len(rx.stream) /\ ~HasNewline(buf)) =>
              (lines = LinesOf(text) /\ buf = RestOf(text))

\* C18: when the line split off buf is a [FOR_PI] envelope whose payload is not a
\* JSON object, the step admits nothing and queues nothing: the reader stays in
\* its loop with the rest of buf, and session table, queue and call history are
\* unchanged.
C18_MalformedYieldsNothing ==
    [][ (/\ Len(lines') = Len(lines) + 1
         /\ StartsWith(lines'[Len(lines')], ForPi)
         /\ json_loads(JsonPart(lines'[Len(lines')])).isNone) =>
            /\ rd' = rd /\ rd'.pc = "idle"
            /\ PACKET_BUFFER' = PACKET_BUFFER
            /\ DATA_QUEUE' = DATA_QUEUE
            /\ calls' = calls /\ ncalls' = ncalls
            /\ buf' = AfterNewline(buf)
            /\ rx' = rx
      ]_vars

\* the envelope with the quoted text has just been passed over, after a packet was
\* queued and with the next envelope waiting in buf
C18_Witness ==
    /\ Len(lines) >= 2
    /\ lines[Len(lines)] = "[FOR_PI]\"not json\""
    /\ rd.pc = "idle"
    /\ Len(DATA_QUEUE) = 1
    /\ HasNewline(buf)

\* the response at position i of a POST log is a 2xx response
Got2xx(log, i) == ~log[i].error /\ log[i].status \in 200..299

\* the threads inside a write-and-flush section of the serial link
InWrite ==
    {w \in Writers : wr[w] = "flush"}
        \cup (IF sn.pc = "flush" THEN {"sender"} ELSE {})
        \cup (IF rc = "flush" THEN {"reader"} ELSE {})

\* C12: when _http_post returns with no shutdown signal and every response to its
\* POSTs was a failure, it has made exactly http_max_retry POSTs and returns
\* False; no step of the delivery worker puts a record on the queue, and after
\* _http_post has returned no further POST is made for the record.
C12_AbandonedAfterMaxRetry ==
    [][ /\ (/\ sn.pc \in {"post", "backoff"} /\ sn'.pc = "tag"
            /\ ~STOP
            /\ \A i \in 1..Len(sn'.log) : ~Got2xx(sn'.log, i)) =>
                (Len(sn'.log) = http_max_retry /\ ~sn'.ok)
        /\ sn' # sn =>
              \/ DATA_QUEUE' = DATA_QUEUE
              \/ (sn.pc = "get" /\ DATA_QUEUE' = Tail(DATA_QUEUE))
        /\ sn.pc \in {"tag", "flush"} => (sn'.log = sn.log \/ sn'.log = <<>>)
      ]_vars

\* the worker has given up a record after a transport error and a 300 response,
\* with no shutdown signal
C12_Witness ==
    /\ sn.pc = "tag"
    /\ ~STOP
    /\ ~sn.ok
    /\ sn.log = <<TransportError, Response(300)>>

\* C13: once _http_post has returned, its result is True exactly when one of the
\* responses to its POSTs had a status in 200..299; a 2xx response is always the
\* last one of the log, received by a worker that has left the POST loop.
C13_TrueIffSome2xx ==
    /\ sn.pc \in {"tag", "flush"} =>
          (sn.ok <=> \E i \in 1..Len(sn.log) : Got2xx(sn.log, i))
    /\ \A i \in 1..Len(sn.log) :
          Got2xx(sn.log, i) => (i = Len(sn.log) /\ sn.pc \in {"tag", "flush"})

\* _http_post has returned True after a 199 response and then a 299 response
C13_Witness ==
    /\ sn.pc = "tag"
    /\ sn.ok
    /\ sn.log = <<Response(199), Response(299)>>

\* C14: the step that writes the outcome of a record to an open handle of a
\* plugged receiver writes exactly one tag for the record, [SVROK] if one of its
\* POSTs got a 2xx response and [SVRERR] otherwise; no other step of the worker
\* writes a tag.
C14_OneTagPerRecord ==
    [][ /\ (sn.pc = "tag" /\ sn'.pc = "flush" /\ SER_HANDLE = "open" /\ link) =>
              sn'.tags = << IF \E i \in 1..Len(sn.log) : Got2xx(sn.log, i)
                            THEN "[SVROK]\n" ELSE "[SVRERR]\n" >>
        /\ sn.pc # "tag" => (sn'.tags = sn.tags \/ sn'.tags = <<>>)
        /\ sn.pc = "tag" => sn.tags = <<>>
      ]_vars

\* the worker has written [SVRERR] for a record it gave up, with no shutdown signal
C14_Witness ==
    /\ sn.pc = "flush"
    /\ ~STOP
    /\ Len(sn.log) = http_max_retry
    /\ sn.tags = <<"[SVRERR]\n">>
    /\ SER_HANDLE = "open"

\* C15: at most one thread is inside a write-and-flush section, that thread holds
\* SER_LOCK, and SER_LOCK is held only by a thread inside such a section: not by
\* the worker during its POSTs and backoffs, nor by a writer in its timed wait.
C15_WritersExclusive ==
    /\ Cardinality(InWrite) <= 1
    /\ \A t \in InWrite : SER_LOCK = t
    /\ SER_LOCK # "free" => SER_LOCK \in InWrite

\* the worker is writing its tag while the heartbeat writer, the identity writer
\* and the reader's announcement on reconnect all wait for the lock
C15_Witness ==
    /\ SER_LOCK = "sender"
    /\ sn.pc = "flush"
    /\ \A w \in Writers : wr[w] = "lock"
    /\ rc = "announce"

\* C16 as claimed: after the shutdown signal, as long as main() is in its grace
\* period, the delivery worker has not left its loop while records are queued, nor
\* dropped a record it had taken; and the handle is closed only by main() at its end.
C16_DrainedBeforeClose ==
    /\ (STOP /\ mn \in {"run", "drain"} /\ sn.pc = "exit") =>
          (DATA_QUEUE = <<>> /\ sn.data.isNone)
    /\ SER_HANDLE = "closed" => mn = "bye"

\* C19: the reader loop, the delivery-worker loop and the janitor loop are left
\* only when the shutdown signal is set, whatever happened before: a line passed
\* over, a session evicted, a record dropped at the full queue, a delivery given
\* up, the receiver unplugged.
C19_LoopsKeepRunning ==
    (rc = "exit" \/ sn.pc = "exit" \/ jn.pc = "exit") => STOP

\* with no shutdown signal: a line was passed over, the receiver was unplugged and
\* the reader is back at detecting it, the worker has just given up a record, and
\* the janitor is in its loop
C19_Witness ==
    /\ ~STOP
    /\ lines # <<>>
    /\ ncalls >= 1 /\ rc = "detect" /\ SER_HANDLE = "none" /\ ~link
    /\ sn.pc = "tag" /\ ~sn.ok /\ Len(sn.log) = http_max_retry
    /\ jn.pc # "exit"

\* C21: a sweep of the janitor removes exactly the sessions whose age, the clock
\* minus the time the session was created, exceeds the staleness timeout; every
\* other session stays as it was; the sweep queues nothing and returns nothing to
\* the reader; and a session that was evicted is never the one a merge completes.
C21_SweepRemovesExactlyStale ==
    [][ /\ (jn.pc = "del" /\ jn'.pc = "wait") =>
              /\ DOMAIN PACKET_BUFFER' =
                    {key \in DOMAIN PACKET_BUFFER :
                        ~(now - PACKET_BUFFER[key].timestamp > packet_buffer_timeout)}
              /\ \A key \in DOMAIN PACKET_BUFFER' :
                    PACKET_BUFFER'[key] = PACKET_BUFFER[key]
              /\ DATA_QUEUE' = DATA_QUEUE
              /\ rd' = rd
        /\ Completed' => Count(removals'.evicted, rd'.session) = 0
      ]_vars

\* a sweep has just evicted the session of A, older than the timeout, and left
\* the younger session of B in the table
C21_Witness ==
    /\ jn.pc = "wait" /\ jn.wake = now + SweepPeriod
    /\ "A_0" \in DOMAIN sid /\ WasEvicted(sid["A_0"])
    /\ DOMAIN PACKET_BUFFER = {"B_7"}
    /\ now - PACKET_BUFFER["B_7"].timestamp \in 1..packet_buffer_timeout

\* C22: when the shutdown signal is set while _http_post waits in its backoff, the
\* next step of the delivery worker is the return of _http_post with False, with
\* no POST added, however many attempts were left; and the record gets no POST
\* afterwards.
C22_StopEndsBackoff ==
    [][ /\ (sn.pc = "backoff" /\ STOP /\ sn' # sn) =>
              /\ sn'.pc = "tag"
              /\ ~sn'.ok
              /\ sn'.log = sn.log
        /\ (STOP /\ sn.pc \in {"tag", "flush"}) => sn'.pc # "post"
      ]_vars

\* _http_post has returned False after one failed attempt of the two allowed:
\* the shutdown signal ended its first backoff
C22_Witness ==
    /\ STOP
    /\ sn.pc = "tag"
    /\ ~sn.ok
    /\ sn.attempt = 1 /\ sn.attempt < http_max_retry
    /\ Len(sn.log) = 1

\* C23: within one delivery job the k-th backoff wait follows the k-th failed
\* attempt and its timeout is min(k, 5): the timeouts never decrease and never
\* exceed 5, for every value of the maximum attempt count.
C23_BackoffIsMinK5 ==
    /\ \A k \in 1..Len(sn.waits) :
          /\ sn.waits[k] = (IF k < 5 THEN k ELSE 5)
          /\ sn.waits[k] <= 5
          /\ k > 1 => sn.waits[k - 1] <= sn.waits[k]
          /\ k <= Len(sn.log) /\ ~Got2xx(sn.log, k)
    /\ Len(sn.waits) <= http_max_retry \/ sn.waits = <<>>
    /\ sn.pc = "backoff" => Len(sn.waits) = Len(sn.log) - 1

\* six attempts have failed and the sixth wait, at the ceiling, has been taken
C23_Witness ==
    /\ Len(sn.waits) = 6
    /\ sn.waits[6] = 5
    /\ sn.waits[4] = 4

\* C24 as claimed: the dispatch queue never holds more records than the
\* configured capacity, whatever integer the capacity option was given.
C24_QueueWithinCapacity ==
    Len(DATA_QUEUE) <= queue_maxsize

\* C25 as claimed, for the timed waits: once the shutdown signal is set, a worker
\* that is in a timed wait (between two heartbeats or identity lines, two sweeps,
\* two samples, or two delivery attempts) leaves the wait for the way out: the
\* periodic workers return, and the delivery worker makes no further attempt.
C25_StopWakesEveryWait ==
    [][ STOP =>
          /\ (sn.pc = "backoff" /\ sn' # sn) =>
                (sn'.pc = "tag" /\ sn'.log = sn.log)
          /\ \A w \in DOMAIN px :
                (px[w].pc = "wait" /\ px'[w] # px[w]) => px'[w].pc = "exit"
          /\ \A w \in DOMAIN wr :
                (wr[w] = "wait" /\ wr'[w] # wr[w]) => wr'[w] = "exit"
          /\ (jn.pc = "wait" /\ jn' # jn) => jn'.pc = "exit"
      ]_vars

\* C26 as claimed: whenever the reader leaves the read loop or the open for a
\* serial I/O failure, the handle is closed and the shared reference cleared, and
\* the reader is in the wait of the detect interval before it detects again; and
\* the reader never opens a handle while the previous one is still open.
C26_FailureClosesAndWaits ==
    [][ /\ (rc = "read" /\ rc' \notin {"read", "exit"}) =>
              (SER_HANDLE' = "none" /\ rc' = "wait")
        /\ (rc = "detect" /\ rc' \notin {"detect", "announce", "exit"}) =>
              (SER_HANDLE' = "none" /\ rc' = "wait")
        /\ (rc = "detect" /\ rc' = "announce") => SER_HANDLE # "open"
      ]_vars

\* C27: no step of the reader around the serial connection (disconnect, wait,
\* detect, open, announce) and no plugging or unplugging of the receiver changes
\* the session table, the removals or the queue; a session leaves the table only
\* in the step of process_packet that completes it or in the delete of a sweep.
C27_DisconnectKeepsSessions ==
    [][ /\ (rc' # rc \/ link' # link \/ SER_HANDLE' # SER_HANDLE) =>
              /\ PACKET_BUFFER' = PACKET_BUFFER
              /\ removals' = removals
              /\ DATA_QUEUE' = DATA_QUEUE
        /\ (\E key \in DOMAIN PACKET_BUFFER : key \notin DOMAIN PACKET_BUFFER') =>
              \/ jn.pc = "del" /\ jn'.pc = "wait"
              \/ rd.pc = "check" /\ ~rd'.ret.isNone
      ]_vars

\* the session of A, created while the reader was reading, holds its one part
\* while the reader, past a disconnect, has opened the port again and is about to
\* announce itself
C27_Witness ==
    /\ rc = "announce"
    /\ SER_HANDLE = "open"
    /\ "A_0" \in DOMAIN PACKET_BUFFER
    /\ Len(PACKET_BUFFER["A_0"].packets) = 1
    /\ removals = [completed |-> EmptyDict, evicted |-> EmptyDict]

\* the records that can be in the dispatch queue
QueuedRecords == {DATA_QUEUE[i] : i \in 1..Len(DATA_QUEUE)}

\* _http_post has returned for the record r in the worker's hand: its outcome,
\* success or abandoned, is final
Settled(r) == sn.pc = "tag" /\ sn.data = Some(r)

-----------------------------------------------------------------------------
(* raspi-v1.py: the reader of the block protocol.  An envelope is a line       *)
(* "sensorID:<id>", the start marker, lines "pN-type-value", the end marker.   *)

SensorIdTag == "sensorID:"
DataStart == "@sensor_data_start"
DataEnd == "@sensor_data_end"

\* s[a:b] of Python, with positions counted from 1 and b included
Slice(s, a, b) == IF a > b \/ a > Len(s) THEN "" ELSE SubSeq(s, a, b)

\* the positions of s at which sub starts
Hits(s, sub) ==
    {i \in 1..(Len(s) - Len(sub) + 1) : SubSeq(s, i, i + Len(sub) - 1) = sub}

\* sub in s
Contains(s, sub) == Hits(s, sub) # {}

\* s.index(sub, from), positions counted from 1; 0 stands for ValueError
Index(s, sub, from) ==
    LET later == {i \in Hits(s, sub) : i >= from}
    IN  IF later = {} THEN 0
        ELSE CHOOSE i \in later : \A j \in later : i <= j

\* the condition of the extraction loop
HasBlock(s) ==
    Contains(s, SensorIdTag) /\ Contains(s, DataStart) /\ Contains(s, DataEnd)

\* s.split(sep) for a separator of one character
RECURSIVE Split(_, _)
Split(s, sep) ==
    LET i == Index(s, sep, 1)
    IN  IF i = 0 THEN <<s>>
        ELSE <<Slice(s, 1, i - 1)>> \o Split(Slice(s, i + 1, Len(s)), sep)

\* str.isdigit() on the texts of the model
IsDigit(s) == s # "" /\ \A i \in 1..Len(s) : Char(s, i) \in Digits

ParseDataLine_FirstValue(raw) ==
    LET line == Strip(raw)
        parts == Split(line, "-")
    IN  IF Len(parts) < 3 THEN Nothing
        ELSE IF ~StartsWith(parts[1], "p") \/ ~IsDigit(Slice(parts[1], 2, Len(parts[1])))
        THEN Nothing
        ELSE IF parts[2] = "null" /\ parts[3] = "null" THEN Nothing
        ELSE Some([port_number |-> StrToInt(Slice(parts[1], 2, Len(parts[1]))),
                   sensor_type |-> parts[2],
                   value |-> parts[3]])

\* one line of a block: the entry it adds to datas, or nothing
ParseDataLine(raw) ==
    LET line == Strip(raw)
        parts == Split(line, "-")
        port == parts[1]
        sensor_type == parts[2]
        second == Index(line, "-", Index(line, "-", 1) + 1)
        sensor_value == Slice(line, second + 1, Len(line))
    IN  IF line = "" \/ ~Contains(line, "-") THEN Nothing
        ELSE IF Len(parts) < 3 THEN Nothing
        ELSE IF ~StartsWith(port, "p") \/ ~IsDigit(Slice(port, 2, Len(port)))
        THEN Nothing
        ELSE IF sensor_type = "null" /\ sensor_value = "null" THEN Nothing
        ELSE Some([port_number |-> StrToInt(Slice(port, 2, Len(port))),
                   sensor_type |-> sensor_type,
                   value |-> sensor_value])

\* datas: the entries of the lines of sensor_data, in order
RECURSIVE DatasOf(_)
DatasOf(data_lines) ==
    IF data_lines = <<>> THEN <<>>
    ELSE LET entry == ParseDataLine(Head(data_lines))
         IN  (IF entry.isNone THEN <<>> ELSE <<entry.val>>)
                \o DatasOf(Tail(data_lines))

\* the serial number of the Pi in the payloads
PiSerial == "PI"

\* what one round of the extraction loop works out from buf
sensorid_idx(s) == Index(s, SensorIdTag, 1)
sensorid_line_end(s) == Index(s, "\n", sensorid_idx(s))
SensorIdOf(s) == Strip(Slice(s, sensorid_idx(s) + Len(SensorIdTag), sensorid_line_end(s) - 1))
start_idx(s) == Index(s, DataStart, 1) + Len(DataStart)
end_idx(s) == Index(s, DataEnd, 1)
SensorDataOf(s) == Strip(Slice(s, start_idx(s), end_idx(s) - 1))

AfterBlock_KeepsMarker(s) == Slice(s, end_idx(s), Len(s))

\* buf = buf[end_idx + len("@sensor_data_end"):]
AfterBlock(s) == Slice(s, end_idx(s) + Len(DataEnd), Len(s))

BlockPayload(sensorID, datas) ==
    Put(Put(Put(EmptyDict, "sensor_controller_id", sensorID),
            "raspberry_id", PiSerial), "datas", datas)

\* a port was found: with SER_LOCK: SER_HANDLE = serial.Serial(...); the read
\* loop starts at once
BlockOpen ==
    /\ Running
    /\ rc = "detect"
    /\ ~StopIsSet
    /\ link
    /\ SerLockFree
    /\ SER_HANDLE' = "open"
    /\ rc' = "read"
    /\ UNCHANGED <<PACKET_BUFFER, BUFFER_LOCK, DATA_QUEUE, now, rd, jn, calls, sid,
                   removals, ncalls, late, scanner, STOP, SER_LOCK, link, sn, wr, mn>>
    /\ UNCHANGED <<CFG, px>>

\* with SER_LOCK: buf += SER_HANDLE.read(SER_HANDLE.in_waiting).decode(
\* errors="ignore"), once the blocks of the previous read are done
BlockRead(in_waiting) ==
    /\ rc = "read"
    /\ ~StopIsSet
    /\ SerLockFree
    /\ ~HasBlock(buf)
    /\ in_waiting \in 1..(Len(rx.stream) - rx.pos)
    /\ buf' = buf \o decode_ignore(SubSeq(rx.stream, rx.pos + 1, rx.pos + in_waiting))
    /\ rx' = [rx EXCEPT !.pos = @ + in_waiting]
    /\ UNCHANGED <<PACKET_BUFFER, BUFFER_LOCK, DATA_QUEUE, now, rd, jn, calls, sid,
                   removals, ncalls, late, lines, delivery>>
    /\ UNCHANGED <<CFG, px>>

\* one round of the extraction loop: the identifier, the block, its entries, the
\* payload handed to queue_put when there is an identifier and an entry, and the
\* buffer cut after the end marker
BlockExtract ==
    /\ rc = "read"
    /\ HasBlock(buf)
    /\ sensorid_line_end(buf) # 0
    /\ LET sensorID == SensorIdOf(buf)
           sensor_data == SensorDataOf(buf)
           datas == DatasOf(Split(sensor_data, "\n"))
       IN  /\ DATA_QUEUE' = IF sensorID = "" \/ datas = <<>> THEN DATA_QUEUE
                            ELSE queue_put(DATA_QUEUE, BlockPayload(sensorID, datas))
           /\ lines' = Append(lines, sensor_data)
    /\ buf' = AfterBlock(buf)
    /\ UNCHANGED <<PACKET_BUFFER, BUFFER_LOCK, now, rd, jn, calls, sid,
                   removals, ncalls, late, rx, delivery>>
    /\ UNCHANGED <<CFG, px>>

\* buf.index("\n", sensorid_idx) raises ValueError: except Exception closes the
\* handle inside "with SER_LOCK"; buf is kept
BlockRaises ==
    /\ rc = "read"
    /\ HasBlock(buf)
    /\ sensorid_line_end(buf) = 0
    /\ SerLockFree
    /\ SER_HANDLE' = "closed"
    /\ rc' = "clear"
    /\ UNCHANGED <<PACKET_BUFFER, BUFFER_LOCK, DATA_QUEUE, now, rd, jn, calls, sid,
                   removals, ncalls, late, scanner, STOP, SER_LOCK, link, sn, wr, mn>>
    /\ UNCHANGED <<CFG, px>>

\* the read loop finds the receiver gone: serial.SerialException, and the except
\* clause closes the handle inside "with SER_LOCK"
BlockDisconnect ==
    /\ Running
    /\ rc = "read"
    /\ ~link
    /\ SerLockFree
    /\ SER_HANDLE' = "closed"
    /\ rc' = "clear"
    /\ UNCHANGED <<PACKET_BUFFER, BUFFER_LOCK, DATA_QUEUE, now, rd, jn, calls, sid,
                   removals, ncalls, late, scanner, STOP, SER_LOCK, link, sn, wr, mn>>
    /\ UNCHANGED <<CFG, px>>

\* SER_HANDLE = None after the end of "with SER_LOCK", then the timed STOP.wait
BlockClear ==
    /\ rc = "clear"
    /\ SER_HANDLE' = "none"
    /\ rc' = "wait"
    /\ UNCHANGED <<PACKET_BUFFER, BUFFER_LOCK, DATA_QUEUE, now, rd, jn, calls, sid,
                   removals, ncalls, late, scanner, STOP, SER_LOCK, link, sn, wr, mn>>
    /\ UNCHANGED <<CFG, px>>

\* the receiver is unplugged or plugged in, at any time
Replug ==
    /\ Running
    /\ link' = ~link
    /\ UNCHANGED <<PACKET_BUFFER, BUFFER_LOCK, DATA_QUEUE, now, rd, jn, calls, sid,
                   removals, ncalls, late, scanner, STOP, SER_HANDLE, SER_LOCK, rc, sn,
                   wr, mn>>
    /\ UNCHANGED <<CFG, px>>

\* a writer of raspi-v1.py enters "with SER_LOCK" and reads SER_HANDLE for the
\* first operand of "if SER_HANDLE and SER_HANDLE.writable()": None ends the
\* statement, a handle goes on to the second operand
WriterFound(w) ==
    /\ Running
    /\ wr[w] = "lock"
    /\ SerLockFree
    /\ SER_LOCK' = w
    /\ wr' = [wr EXCEPT ![w] = IF SER_HANDLE = "none" THEN "flush" ELSE "found"]
    /\ UNCHANGED <<PACKET_BUFFER, BUFFER_LOCK, DATA_QUEUE, now, rd, jn, calls, sid,
                   removals, ncalls, late, scanner, STOP, SER_HANDLE, link, rc, sn, mn>>
    /\ UNCHANGED <<CFG, px>>

\* SER_HANDLE.writable(): the global is read again.  None has no writable():
\* AttributeError, outside the try of the writer, so "with" releases the lock
\* and the thread ends.  Otherwise the write, inside the try.
WriterDeref(w) ==
    /\ Running
    /\ wr[w] = "found"
    /\ IF SER_HANDLE = "none"
       THEN /\ wr' = [wr EXCEPT ![w] = "dead"]
            /\ SER_LOCK' = "free"
       ELSE /\ wr' = [wr EXCEPT ![w] = "flush"]
            /\ SER_LOCK' = SER_LOCK
    /\ UNCHANGED <<PACKET_BUFFER, BUFFER_LOCK, DATA_QUEUE, now, rd, jn, calls, sid,
                   removals, ncalls, late, scanner, STOP, SER_HANDLE, link, rc, sn, mn>>
    /\ UNCHANGED <<CFG, px>>

BlockOf(id, entries) ==
    SensorIdTag \o id \o "\n" \o DataStart \o "\n" \o entries \o DataEnd \o "\n"

\* two envelopes, the first with an entry whose value holds a dash, an entry
\* without a port and a null entry
BlocksPlain ==
    BlockOf("A", "p1-t-2-5\nx-t-1\np2-null-null\n") \o BlockOf("B", "p2-h-40\n")

\* the end of an envelope whose beginning was sent before the port was opened,
\* then a whole envelope
BlocksTail == "p1-t-1\n" \o DataEnd \o "\n" \o BlockOf("A", "p3-t-5\n")

\* a block whose identifier line was sent before the port was opened, then a
\* whole envelope
BlocksHeadless ==
    DataStart \o "\np1-t-1\n" \o DataEnd \o "\n" \o BlockOf("B", "p2-t-2\n")

\* an envelope with a line of two segments, a line without a dash, an empty
\* line, a null type with a value, and a value that begins with a dash
BlocksOdd == BlockOf("C", "p4-7\nready\n\np5-null-x\np6-t--3\n")

BlockStreams ==
    {encode_utf8(text) : text \in {BlocksPlain, BlocksTail, BlocksHeadless, BlocksOdd}}

\* the receiver speaks the block protocol: the reader is that of raspi-v1.py
ReadsBlocks == rx.stream \in BlockStreams

\* either reader fed through the serial line, for each of its byte streams and
\* every way of cutting the stream into reads
InitFrames ==
    /\ InitBuffers
    /\ rx \in {[stream |-> stream, pos |-> 0] : stream \in Streams \cup BlockStreams}
    /\ buf = ""
    /\ lines = <<>>
    /\ DeliveryIdle
    /\ PushersIdle
    /\ Configured

NextFrames ==
    \/ \E n \in 1..Len(rx.stream) : ~ReadsBlocks /\ ReaderRead(n)
    \/ ~ReadsBlocks /\ ReaderScan
    \/ ReaderStore
    \/ ReaderCheck
    \/ ReaderPut
    \/ ReadsBlocks /\ BlockOpen
    \/ \E n \in 1..Len(rx.stream) : ReadsBlocks /\ BlockRead(n)
    \/ ReadsBlocks /\ BlockExtract
    \/ ReadsBlocks /\ BlockRaises
    \/ ReadsBlocks /\ BlockClear
    \/ ReadsBlocks /\ ReaderRetry

SpecFrames == InitFrames /\ [][NextFrames]_vars

\* what was cut off the front of the buffer by the step
CutOff == Slice(buf, 1, Len(buf) - Len(buf'))

\* the bytes of the end marker
DataEndBytes == encode_utf8(DataEnd)

\* the step of a reader whose envelopes end with term (bytes on the line) and
\* whose extraction loop runs while more holds: an extraction cuts the buffer
\* back to what follows the first terminator, nothing is added to the buffer
\* while the loop has an envelope to take, and the envelopes extracted so far
\* together with the terminators still in the buffer are the terminators among
\* the bytes received
ExtractionStep(term, bytes, more) ==
    /\ lines' # lines =>
          /\ Len(lines') = Len(lines) + 1
          /\ Len(buf') < Len(buf)
          /\ buf' = Slice(buf, Len(buf) - Len(buf') + 1, Len(buf))
          /\ EndsWith(CutOff, term)
          /\ Cardinality(Hits(CutOff, term)) = 1
    /\ more => Len(buf') <= Len(buf)
    /\ Len(lines') + Cardinality(Hits(buf', term))
          = Cardinality(Hits(SubSeq(rx'.stream, 1, rx'.pos), bytes))

-----------------------------------------------------------------------------
(* raspi.py: worker_push_sys_metrics and worker_gps_reader send their records  *)
(* themselves, through post_heartbeat and gps_send_api                         *)

\* the payload of post_heartbeat(), and the payload worker_gps_reader builds from
\* a fix, with one of the measured fields
Reading(w) ==
    IF w = "sys"
    THEN [k \in {"raspi_serial_id", "uptime_s"} |->
            IF k = "raspi_serial_id" THEN PiSerial ELSE "60"]
    ELSE [k \in {"raspi_serial_id", "lat", "timestamp"} |->
            IF k = "raspi_serial_id" THEN PiSerial
            ELSE IF k = "timestamp" THEN UtcNowIso ELSE "52"]

\* the timed STOP.wait is over and STOP is not set: the payload is built and
\* _http_post is entered, range(1, http_max_retry + 1) being empty or not
PusherLoop(w) ==
    /\ Running
    /\ px[w].pc = "wait"
    /\ ~StopIsSet
    /\ px[w].rounds < MaxJobs
    /\ px' = [px EXCEPT ![w].rounds = @ + 1,
                        ![w].ok = FALSE,
                        ![w].attempt = IF NoAttempts THEN 0 ELSE 1,
                        ![w].pc = IF NoAttempts THEN "wait" ELSE "post"]
    /\ UNCHANGED <<PACKET_BUFFER, BUFFER_LOCK, DATA_QUEUE, now, rd, jn, calls, sid,
                   removals, ncalls, late, scanner, delivery, CFG>>

\* one round of the loop of _http_post: return False if STOP is set, else POST
\* the payload; a 2xx status returns True, anything else goes to the backoff
PusherPost(w, resp) ==
    /\ Running
    /\ px[w].pc = "post"
    /\ LET good == ~resp.error /\ IsSuccess(resp.status)
       IN  px' = IF StopIsSet THEN [px EXCEPT ![w].pc = "wait", ![w].ok = FALSE]
                 ELSE [px EXCEPT ![w].log = Append(@, Reading(w)), ![w].ok = good,
                                 ![w].pc = IF good THEN "wait" ELSE "backoff"]
    /\ UNCHANGED <<PACKET_BUFFER, BUFFER_LOCK, DATA_QUEUE, now, rd, jn, calls, sid,
                   removals, ncalls, late, scanner, delivery, CFG>>

\* if STOP.wait(min(1 * attempt, 5)): return False -- else the next attempt, or
\* return False after the last one
PusherBackoff(w) ==
    /\ Running
    /\ px[w].pc = "backoff"
    /\ px' = IF StopIsSet \/ LastAttempt(px[w].attempt)
             THEN [px EXCEPT ![w].pc = "wait", ![w].ok = FALSE]
             ELSE [px EXCEPT ![w].pc = "post", ![w].attempt = @ + 1]
    /\ UNCHANGED <<PACKET_BUFFER, BUFFER_LOCK, DATA_QUEUE, now, rd, jn, calls, sid,
                   removals, ncalls, late, scanner, delivery, CFG>>

\* raspi.py: the reader that fills the dispatch queue, the two workers that send
\* their own records, and the signal
NextPushers ==
    \/ \E parsed \in DeliveryLines : ncalls < MaxJobs /\ ReaderLine(parsed)
    \/ ReaderStore
    \/ ReaderCheck
    \/ ReaderPut
    \/ \E w \in Pushers : PusherLoop(w)
    \/ \E w \in Pushers, resp \in {Response(200), TransportError} : PusherPost(w, resp)
    \/ \E w \in Pushers : PusherBackoff(w)
    \/ \E w \in Pushers : PusherLeave(w)
    \/ Signal

SpecPushers == Init /\ [][NextPushers]_vars

\* the step takes a sample of worker w: a system-metrics payload or a GPS fix
SampleTaken(w) == px'[w].rounds = px[w].rounds + 1

\* C30: every GPS fix and every system-metrics sample is handed to the dispatch
\* queue with queue_put, its worker never sends a record itself (sending is left
\* to the delivery worker, with its retries and its outcome tag), and no step of
\* these workers changes the session table or the history of its sessions
C30_SamplesGoThroughQueue ==
    [][\A w \in Pushers :
          /\ SampleTaken(w) =>
                \E r \in {Sample(w), Reading(w)} : DATA_QUEUE' = queue_put(DATA_QUEUE, r)
          /\ px'[w].log = px[w].log
          /\ px'[w] # px[w] =>
                /\ PACKET_BUFFER' = PACKET_BUFFER
                /\ BUFFER_LOCK' = BUFFER_LOCK
                /\ calls' = calls
                /\ sid' = sid
                /\ removals' = removals]_vars

-----------------------------------------------------------------------------
(* The entries of a block, stated on the segments of its lines *)

\* the segments of a line of a block
Segments(line) == Split(Strip(line), "-")

\* the segments joined with the delimiter again
RECURSIVE Rejoin(_)
Rejoin(parts) ==
    IF Len(parts) = 1 THEN parts[1] ELSE parts[1] \o "-" \o Rejoin(Tail(parts))

\* the value of a line of three segments or more
ValueOf(line) == Rejoin(SubSeq(Segments(line), 3, Len(Segments(line))))

\* the line splits into three segments or more and is not a null placeholder
ThreeSegments(line) ==
    /\ Len(Segments(line)) >= 3
    /\ ~(Segments(line)[2] = "null" /\ ValueOf(line) = "null")

\* the first segment is the letter p followed by digits
NamesPort(line) ==
    LET port == Segments(line)[1]
    IN  Len(port) >= 2 /\ Char(port, 1) = "p"
            /\ \A i \in 2..Len(port) : Char(port, i) \in Digits

KeepsLine(line) == ThreeSegments(line) /\ NamesPort(line)

\* type and value of the lines of a block that have three segments
PairsOf(block) ==
    LET kept == SelectSeq(Split(block, "\n"), ThreeSegments)
    IN  [i \in 1..Len(kept) |->
            [sensor_type |-> Segments(kept[i])[2], value |-> ValueOf(kept[i])]]

\* port number, type and value of the lines of a block that have three segments
\* and name a port
EntriesOf(block) ==
    LET kept == SelectSeq(Split(block, "\n"), KeepsLine)
    IN  [i \in 1..Len(kept) |->
            [port_number |-> StrToInt(Slice(Segments(kept[i])[1], 2,
                                            Len(Segments(kept[i])[1]))),
             sensor_type |-> Segments(kept[i])[2],
             value |-> ValueOf(kept[i])]]

\* type and value of the entries of a payload
TypesAndValues(datas) ==
    [i \in 1..Len(datas) |->
        [sensor_type |-> datas[i].sensor_type, value |-> datas[i].value]]

\* the step extracts a block
ExtractsBlock == ReadsBlocks /\ lines' # lines

\* the block extracted by the step
Extracted == lines'[Len(lines')]

\* the step puts a payload into the dispatch queue
Queues == Len(DATA_QUEUE') = Len(DATA_QUEUE) + 1

\* C31 (as stated): of the lines of an extracted block, those with fewer than
\* three segments and the null placeholders are dropped, and every other line
\* gives an entry with its second segment as type and the re-joined rest as
\* value, in the order of the lines
C31_ThreeSegmentsGiveEntry ==
    [][ExtractsBlock /\ Queues =>
          TypesAndValues(Get(DATA_QUEUE'[Len(DATA_QUEUE')], "datas", <<>>))
              = PairsOf(Extracted)]_vars

\* C31 (amended): of the lines of an extracted block, those with fewer than
\* three segments, those whose first segment is not p followed by digits and the
\* null placeholders are dropped; every other line gives an entry with the
\* number after p as port, its second segment as type and the re-joined rest as
\* value, in the order of the lines; the payload is queued with exactly these
\* entries when there is an identifier and an entry
C31_PortLinesGiveEntry ==
    [][ExtractsBlock =>
          IF SensorIdOf(buf) = "" \/ EntriesOf(Extracted) = <<>>
          THEN DATA_QUEUE' = DATA_QUEUE
          ELSE DATA_QUEUE' =
                  queue_put(DATA_QUEUE,
                            BlockPayload(SensorIdOf(buf), EntriesOf(Extracted)))]_vars

\* the payload of the first envelope of the plain stream is in the queue: its
\* value with a dash is whole, the line without a port and the placeholder of
\* the block are not in it
C31_Witness ==
    /\ rx.stream = encode_utf8(BlocksPlain)
    /\ Len(lines) >= 1
    /\ Len(DATA_QUEUE) = 1
    /\ Get(DATA_QUEUE[1], "datas", <<>>)
          = <<[port_number |-> 1, sensor_type |-> "t", value |-> "2-5"]>>

-----------------------------------------------------------------------------
(* Assembly keys: parts of batches with and without a batch timestamp *)

\* parts of two-part batches of controller A without "ts", with "ts": 0 and with
\* "ts": 7, and a part of controller B with "ts": 0
KeyLines ==
    { Part("A", 0, 2, Body(0)),
      Put(Part("A", 1, 2, Body(1)), "ts", 0),
      Put(Part("A", 0, 2, Body(0)), "ts", 7),
      Put(Part("B", 1, 2, Body(1)), "ts", 0) }

\* the reader fed with parts of these batches
NextKeys ==
    \/ \E parsed \in KeyLines : ReaderLine(parsed)
    \/ ReaderStore
    \/ ReaderCheck
    \/ ReaderPut

SpecKeys == Init /\ [][NextKeys]_vars

\* the (controllerId, batch timestamp) pair of a packet; a field the packet does
\* not have is an empty component
PairOf(packet) ==
    << IF "sensor_controller_id" \in DOMAIN packet
       THEN <<packet["sensor_controller_id"]>> ELSE <<>>,
       IF "ts" \in DOMAIN packet THEN <<packet["ts"]>> ELSE <<>> >>

\* C32: the parts stored in one session all have the same (controllerId, batch
\* timestamp) pair: packets whose pairs differ never get the same key, so parts
\* of different controllers or batches never share a session
C32_DistinctPairsDistinctKeys ==
    \A key \in DOMAIN PACKET_BUFFER :
        \A i, j \in 1..Len(PACKET_BUFFER[key].packets) :
            PairOf(PACKET_BUFFER[key].packets[i].packet)
                = PairOf(PACKET_BUFFER[key].packets[j].packet)

-----------------------------------------------------------------------------
(* raspi-v1.py: the serial handle between the reader and the periodic writers *)

\* the reader opening, losing and dropping the receiver, the two periodic
\* writers at the grain of their reads of SER_HANDLE, and the signal
NextHandle ==
    \/ BlockOpen
    \/ BlockDisconnect
    \/ BlockClear
    \/ ReaderRetry
    \/ Replug
    \/ \E w \in Writers : WriterLoop(w)
    \/ \E w \in Writers : WriterFound(w)
    \/ \E w \in Writers : WriterDeref(w)
    \/ \E w \in Writers : WriterEnd(w)
    \/ \E w \in Writers : WriterLeave(w)
    \/ Signal

SpecHandle == Init /\ [][NextHandle]_vars

\* C33: SER_HANDLE is assigned only by a thread that holds SER_LOCK, that is,
\* never while a writer is inside "with SER_LOCK"; and a writer that has found a
\* handle inside the lock never comes upon None before it releases the lock
C33_HandleAssignedUnderLock ==
    [][/\ SER_HANDLE' # SER_HANDLE => SER_LOCK = "free"
       /\ \A w \in Writers : wr'[w] # "dead"]_vars

-----------------------------------------------------------------------------
(* The two locks and the dispatch queue: every thread that takes a lock *)

\* a one-part batch and the first part of a two-part batch
LockLines == {Part("A", 0, 1, Body(0)), Part("A", 0, 2, Body(0))}

\* the reader from the open of the port on, the janitor, the delivery worker
\* and the periodic writers, without shutdown
NextLocks ==
    \/ ReaderOpen
    \/ ReaderAnnounce
    \/ ReaderAnnounced
    \/ \E parsed \in LockLines : rc = "read" /\ ncalls < MaxJobs /\ ReaderLine(parsed)
    \/ ReaderStore
    \/ ReaderCheck
    \/ ReaderPut
    \/ JanitorWake
    \/ JanitorScan
    \/ JanitorDelete
    \/ Tick
    \/ SenderGet
    \/ SenderGot
    \/ \E resp \in {Response(200), TransportError} : SenderPost(resp)
    \/ SenderBackoff
    \/ SenderTag
    \/ SenderDone
    \/ \E w \in Writers : WriterLoop(w)
    \/ \E w \in Writers : WriterBegin(w)
    \/ \E w \in Writers : WriterEnd(w)

SpecLocks == Init /\ [][NextLocks]_vars

\* the thread is inside "with BUFFER_LOCK" / inside "with SER_LOCK"
InTable(t) ==
    \/ t = "reader" /\ rd.pc = "check"
    \/ t = "janitor" /\ jn.pc = "del"
InSerial(t) ==
    \/ t = "reader" /\ rc = "flush"
    \/ t = "sender" /\ sn.pc = "flush"
    \/ t \in Writers /\ wr[t] = "flush"

\* the thread is at DATA_QUEUE.put or DATA_QUEUE.get
AtQueue(t) ==
    \/ t = "reader" /\ rd.pc = "put"
    \/ t = "sender" /\ sn.pc = "get"

Threads == {"reader", "janitor", "sender"} \cup Writers

\* C34: a lock is held by exactly the thread that is inside its with block; no
\* thread is inside both with blocks at once; a thread at put or get of the
\* dispatch queue is inside neither; and the holder of a lock can always take
\* the step that releases it, whatever the other threads and the queue do
C34_LocksNeverNested ==
    /\ \A t \in Threads :
          /\ InTable(t) <=> BUFFER_LOCK = t
          /\ InSerial(t) <=> SER_LOCK = t
          /\ ~(InTable(t) /\ InSerial(t))
          /\ AtQueue(t) => ~InTable(t) /\ ~InSerial(t)
    /\ BUFFER_LOCK = "reader" => ENABLED ReaderCheck
    /\ BUFFER_LOCK = "janitor" => ENABLED JanitorDelete
    /\ SER_LOCK = "reader" => ENABLED ReaderAnnounced
    /\ SER_LOCK = "sender" => ENABLED SenderDone
    /\ \A w \in Writers : SER_LOCK = w => ENABLED WriterEnd(w)

\* the reader is at queue_put with the queue full while the janitor is inside
\* the table lock and a periodic writer inside the serial lock
C34_Witness ==
    /\ rd.pc = "put"
    /\ queue_maxsize > 0 /\ Len(DATA_QUEUE) = queue_maxsize
    /\ BUFFER_LOCK = "janitor"
    /\ SER_LOCK \in Writers

-----------------------------------------------------------------------------
(* Redelivery: parts of a batch that arrive again after the batch has completed *)

\* the two parts of a two-part batch of controller A
RedeliveryLines == {Part("A", seq, 2, Body(seq)) : seq \in 0..1}

\* the reader has admitted part 0 of the batch, as session 0 at time 0, and is
\* back at its read loop
InitRedelivery ==
    LET first == Normalize(Part("A", 0, 2, Body(0)), UtcNowIso)
        key == get_buffer_key(first)
    IN  /\ PACKET_BUFFER =
              Put(EmptyDict, key,
                  [packets |-> StorePart(<<>>, 0, first), timestamp |-> 0, total |-> 2])
        /\ sid = Put(EmptyDict, key, 0)
        /\ calls = Put(EmptyDict, key, <<[seq |-> 0, tot |-> 2, merged |-> FALSE]>>)
        /\ BUFFER_LOCK = "free"
        /\ DATA_QUEUE = <<>>
        /\ now = 0
        /\ rd = ReaderIdle
        /\ jn = [pc |-> "wait", now |-> 0, stale_keys |-> {}, stale_sessions |-> {},
                 wake |-> SweepPeriod]
        /\ removals = [completed |-> EmptyDict, evicted |-> EmptyDict]
        /\ ncalls = 0
        /\ late = FALSE
        /\ ScannerIdle
        /\ DeliveryIdle
        /\ PushersIdle
        /\ Configured

\* the reader fed the parts of the batch again and again, and the janitor
NextRedelivery ==
    \/ \E parsed \in RedeliveryLines : ReaderLine(parsed)
    \/ ReaderStore
    \/ ReaderCheck
    \/ ReaderPut
    \/ JanitorWake
    \/ JanitorScan
    \/ JanitorDelete
    \/ Tick

SpecRedelivery == InitRedelivery /\ [][NextRedelivery]_vars

\* the calls of the session the reader has just served, this call included
SessionCalls == calls[rd.buffer_key]

\* C35: a part that opens a session (also one whose key had a session that has
\* completed and was removed) starts from nothing: with tot >= 2 the call returns
\* None and leaves a session with this one part, under an identity that no
\* removed session has; and a merged record is returned only by a call after
\* which tot distinct indices have been admitted to this very session, which
\* was not evicted, and it is merged from these admissions only
C35_RedeliveryStartsAfresh ==
    (rd.pc = "put" /\ rd.buffer_key # "") =>
        /\ (Len(SessionCalls) = 1 /\ SessionCalls[1].tot >= 2) =>
              /\ rd.ret.isNone
              /\ rd.buffer_key \in DOMAIN PACKET_BUFFER
              /\ Len(PACKET_BUFFER[rd.buffer_key].packets) = 1
              /\ ~WasCompleted(rd.session) /\ ~WasEvicted(rd.session)
        /\ ~rd.ret.isNone =>
              /\ Cardinality({SessionCalls[i].seq : i \in 1..Len(SessionCalls)})
                    = SessionCalls[Len(SessionCalls)].tot
              /\ Seqs(MergedParts) = {SessionCalls[i].seq : i \in 1..Len(SessionCalls)}
              /\ ~WasEvicted(rd.session)
              /\ Count(removals.completed, rd.session) = 1

\* the batch has completed, a part of it has arrived again and opened a session
\* of its own, and with the other part arriving again a second record is merged
C35_Witness ==
    /\ Completed
    /\ Cardinality(DOMAIN removals.completed) = 2
    /\ Len(SessionCalls) = 2
    /\ rd.session # 0

-----------------------------------------------------------------------------
\* C36: the timestamp of a session is the clock at the step that creates the
\* session and no later step changes it while the session is in the table; and
\* a sweep of the janitor marks exactly the sessions for which the clock it has
\* read minus that timestamp exceeds the timeout, however recently a part was
\* stored
C36_CreatedAtSetOnce ==
    [][ /\ \A key \in DOMAIN PACKET_BUFFER' :
              PACKET_BUFFER'[key].timestamp =
                  IF key \in DOMAIN PACKET_BUFFER
                  THEN PACKET_BUFFER[key].timestamp ELSE now
        /\ (jn.pc = "lock" /\ jn'.pc = "del") =>
              jn'.stale_keys =
                  {key \in DOMAIN PACKET_BUFFER :
                      jn.now - PACKET_BUFFER[key].timestamp > packet_buffer_timeout}
      ]_vars

\* the reader has stored a second part in a session that was created earlier on
\* the clock, and the session still has the timestamp of its creation
C36_Witness ==
    /\ rd.pc = "put"
    /\ rd.buffer_key \in DOMAIN PACKET_BUFFER
    /\ Len(PACKET_BUFFER[rd.buffer_key].packets) = 2
    /\ rd.age >= 1
    /\ PACKET_BUFFER[rd.buffer_key].timestamp < now

-----------------------------------------------------------------------------
\* C37: when the worker comes to write the outcome tag and there is no handle
\* (or the handle is closed, or the receiver is unplugged), nothing is written
\* for the record; the worker does not wait for a handle: with the lock free the
\* step is enabled whatever the handle is; and after the with block the worker
\* is back at DATA_QUEUE.get with nothing kept of the record or its tag
C37_TagDiscardedWithoutHandle ==
    [][ /\ (sn.pc = "tag" /\ sn'.pc # "tag" /\ ~(SER_HANDLE = "open" /\ link)) =>
              /\ sn'.tags = <<>>
              /\ sn'.pc = "flush"
        /\ (sn.pc = "tag" /\ SER_LOCK = "free" /\ Running) => ENABLED SenderTag
        /\ (sn.pc = "flush" /\ sn'.pc # "flush") =>
              /\ sn' = SenderIdle
              /\ DATA_QUEUE' = DATA_QUEUE
      ]_vars

\* the worker is leaving the with block without having written a tag, the handle
\* being None, and the next record waits in the queue
C37_Witness ==
    /\ sn.pc = "flush"
    /\ sn.tags = <<>>
    /\ SER_HANDLE = "none"
    /\ DATA_QUEUE # <<>>

-----------------------------------------------------------------------------
\* C38: with the one delivery worker, a record accepted into the dispatch queue
\* goes behind every record accepted before it, the worker starts on a record
\* only from DATA_QUEUE.get and takes the record that was accepted first, with
\* no attempt made yet; every attempt and every backoff wait is made for the
\* record the worker holds, and the worker lets go of a record only after the
\* last of them, at the end of the with block
C38_RecordsDeliveredInOrder ==
    [][ /\ DATA_QUEUE' # DATA_QUEUE =>
              \/ /\ sn.pc = "get"
                 /\ sn'.pc = "got"
                 /\ DATA_QUEUE # <<>>
                 /\ sn'.data = Some(Head(DATA_QUEUE))
                 /\ DATA_QUEUE' = Tail(DATA_QUEUE)
              \/ /\ sn' = sn
                 /\ Len(DATA_QUEUE') = Len(DATA_QUEUE) + 1
                 /\ SubSeq(DATA_QUEUE', 1, Len(DATA_QUEUE)) = DATA_QUEUE
        /\ sn'.data # sn.data =>
              \/ /\ sn.pc = "get"
                 /\ DATA_QUEUE' # DATA_QUEUE
                 /\ sn'.attempt = 0 /\ sn'.log = <<>> /\ sn'.waits = <<>>
              \/ /\ sn.pc = "flush"
                 /\ sn' = SenderIdle
        /\ (sn'.log # sn.log \/ sn'.waits # sn.waits \/ sn'.attempt # sn.attempt) =>
              \/ sn'.data # sn.data
              \/ /\ sn.pc \in {"got", "post", "backoff"}
                 /\ ~sn.data.isNone
        /\ sn.pc \in {"post", "backoff"} => sn'.pc \in {"post", "backoff", "tag"}
      ]_vars

\* the worker is between two attempts of the record accepted first while two
\* other records, accepted after it, wait in the queue in their order
C38_Witness ==
    /\ sn.pc = "backoff"
    /\ sn.attempt = 1
    /\ ~sn.data.isNone
    /\ Len(DATA_QUEUE) = 2
    /\ DATA_QUEUE[1] # DATA_QUEUE[2]
    /\ sn.data.val # DATA_QUEUE[1]

-----------------------------------------------------------------------------
\* C39 (as stated): when the marker-block scanner queues a payload, the
\* identifier line it took the identifier from lies before the end marker of
\* the extracted block, and the cut that removes the block removes that
\* identifier line with it, so that no later payload can take it again
C39_IdentifierFromOwnBlock ==
    [][ (ExtractsBlock /\ Queues) =>
            /\ sensorid_line_end(buf) <= end_idx(buf)
            /\ sensorid_idx(buf) <= Len(buf) - Len(buf')
            /\ Get(DATA_QUEUE'[Len(DATA_QUEUE')], "sensor_controller_id", "") =
                  SensorIdOf(Slice(buf, 1, end_idx(buf) - 1))
      ]_vars

-----------------------------------------------------------------------------
(* The line reader of raspi.py with its connection: reads, disconnects and
   reconnects interleaved *)

InitReconnect ==
    /\ InitBuffers
    /\ rx \in {[stream |-> stream, pos |-> 0] : stream \in Streams}
    /\ buf = ""
    /\ lines = <<>>
    /\ DeliveryIdle
    /\ PushersIdle
    /\ Configured

\* the inner loop reads and scans while the handle is open; buf is the local of
\* worker_serial_reader set before the outer loop
NextReconnect ==
    \/ ReaderOpen
    \/ ReaderAnnounce
    \/ ReaderAnnounced
    \/ \E n \in 1..Len(rx.stream) :
          rc = "read" /\ link /\ SER_HANDLE = "open" /\ SerLockFree /\ ReaderRead(n)
    \/ rc = "read" /\ ReaderScan
    \/ ReaderStore
    \/ ReaderCheck
    \/ ReaderPut
    \/ ReaderDisconnect
    \/ ReaderOpenFails
    \/ ReaderReadFails
    \/ ReaderRetry
    \/ Unplug
    \/ Plug

SpecReconnect == InitReconnect /\ [][NextReconnect]_vars

\* C40: every step of the reader's connection handling (the disconnect, the
\* wait, the new detection, the open, the announcement) and every plugging and
\* unplugging leaves the accumulation buffer and the lines taken from it as they
\* are; the buffer changes only in the read loop, by appending the bytes just
\* read to what it holds or by splitting off its first line
C40_BufferKeptAcrossReconnect ==
    [][ /\ (rc' # rc \/ SER_HANDLE' # SER_HANDLE \/ link' # link) =>
              /\ buf' = buf
              /\ lines' = lines
              /\ rx' = rx
        /\ buf' # buf =>
              /\ rc = "read"
              /\ \/ /\ HasNewline(buf)
                    /\ buf' = AfterNewline(buf)
                 \/ /\ rx'.pos > rx.pos
                    /\ buf' = buf \o decode_ignore(SubSeq(rx.stream, rx.pos + 1, rx'.pos))
      ]_vars

\* the reader waits after a disconnect, with the beginning of an envelope in
\* its buffer and the rest of that envelope still to be sent
C40_Witness ==
    /\ rc = "wait"
    /\ SER_HANDLE = "none"
    /\ buf # ""
    /\ ~HasNewline(buf)
    /\ StartsWith(buf, "[FOR")
    /\ rx.pos < Len(rx.stream)
    /\ lines # <<>>

====
